---- MODULE Spec2Model ----
(***************************************************************************)
(* crtmon: the domain tracker (tracking.go), the notification batcher and  *)
(* the sink delivery loop (send.go).                                       *)
(*                                                                         *)
(* Time is counted in ticks, TicksPerDay ticks to a calendar day, so that  *)
(* an elapsed duration (7*24h) and a calendar date are different things,   *)
(* as they are for time.Since and time.Format("2006-01-02").               *)
(***************************************************************************)
EXTENDS Integers, Sequences, FiniteSets, TLC

VARIABLES
    \* ---- DomainTracker (tracking.go)
    domains,      \* dt.domains: normalized hostname -> DomainEntry
    disk,         \* the table last written by save()
    now,          \* the wall clock, in ticks
    nCalls,       \* ShouldNotifyDomain, ForceNotifyDomain and RecordDomain* calls made
    nAdvances,    \* clock advances made in this run
    \* ---- history of the tracker's calls (what its callers observed)
    last,         \* the last tracker call: what it was and what it returned
    lastTrue,     \* hostname -> when, and on which branch, ShouldNotifyDomain last returned true
    autoBlack,    \* hostnames updateDailyHits has blacklisted
    shortSwept,   \* hostnames evicted by a sweep with maxAge below the cooldown
    fresh,        \* the first sighting that no other call has followed yet
    \* ---- notificationBuffer (send.go)
    pending,      \* n.pending: target -> the buffered hostnames
    timers,       \* n.timers: target -> the timer armed for it
    mu,           \* n.mu: <<>> when free, else who holds it
    timerState,   \* every timer created so far: armed, stopped, or where its flush is
    adds,         \* the add calls in progress: target, hostname, position
    spawned,      \* the `go n.send(target, domains)` goroutines not started yet
    sent,         \* the (target, batch) pairs send has been called with, in call order
    nAdds,        \* add calls made so far
    \* ---- history of the batcher
    addOrder,     \* target -> the hostnames in the order their add acquired n.mu
    detached,     \* target -> the batches detached from pending, in order
    justAdded,    \* the add call that has just returned
    passed,       \* the hostnames add has been called with
    \* ---- one call of notificationBuffer.send (send.go)
    notifyDiscord,   \* main.go:38, set with a configured webhook only
    notifyTelegram,  \* main.go:39, set with a configured token and chat only
    enumEnabled,     \* enumConfig != nil && enumConfig.EnableEnum
    newDomainsHook,  \* GetWebhookConfig() != nil && its NewDomains != ""
    batch,           \* <<target, domains>>: what send was called with
    pc,              \* where the call is
    sink,            \* the sink whose delivery loop is running
    attempt,         \* the loop variable of the delivery loop
    jsonData,        \* the marshalled payload of the running delivery
    clock,           \* seconds since send was called
    posts,           \* the http.Post calls made so far
    outcome,         \* sink -> how its delivery ended
    enumRuns,        \* how often the batch was handed to triggerEnumeration
    hookPosts,       \* sendNewDomainToWebhook calls made
    \* ---- the tracker beside the admin panel (tracking.go, stats.go)
    dtMu,         \* dt.mu: "" when free, else who holds it exclusively
    savers,       \* who is inside save, and where: tracker operation, admin handler
    admin,        \* the blacklist handler in progress: its hostname and its copy
    inodes,       \* the files written so far: complete or not, and their data
    tmpPath,      \* the file at filePath + ".tmp" (0: none)
    finalPath,    \* the file at filePath (0: none)
    existed,      \* the tables dt.domains has held
    \* ---- a caller of the getters
    held,         \* hostname -> the copy a getter returned for it
    calls,        \* the ShouldNotifyDomain calls of goroutines running side by side
    \* ---- from certificate to notification (main.go)
    handed,       \* the hostnames processEntry has handed to add, by number
    dispatching,  \* the position in sent of the batch whose send is running (0: none)
    log,          \* the calls of send that have returned: hostnames and outcome
    \* ---- ResolveDomain (part_001)
    resolveCache, \* resolveCache: normalized hostname -> cacheEntry
    rclock,       \* the wall clock of the resolver, in ticks of an hour
    lookups,      \* resolver.LookupHost calls made so far
    lastResolve,  \* the last ResolveDomain call: hostname, lookup outcome, result
    nResolves,    \* ResolveDomain calls made so far
    \* ---- the scans of the enumeration (part_006, stats.go)
    stats,        \* the scan counters of StatsTracker
    scans,        \* every scan started so far: its kind and how far it is
    nRuns         \* RunFeroxbuster and RunPuredns calls made so far

trackerVars == <<domains, disk, now, nCalls, nAdvances,
                 last, lastTrue, autoBlack, shortSwept, fresh>>

batcherVars == <<pending, timers, mu, timerState, adds, spawned, sent, nAdds,
                 addOrder, detached, justAdded, passed>>

senderVars == <<notifyDiscord, notifyTelegram, enumEnabled, newDomainsHook, batch,
                pc, sink, attempt, jsonData, clock, posts, outcome, enumRuns,
                hookPosts>>

adminVars == <<dtMu, savers, admin, inodes, tmpPath, finalPath, existed>>

callerVars == <<held, calls>>

resolverVars == <<resolveCache, rclock, lookups, lastResolve, nResolves>>

scanVars == <<stats, scans, nRuns>>

pipelineVars == <<handed, dispatching, log, resolverVars, scanVars>>

vars == <<trackerVars, batcherVars, senderVars, adminVars, callerVars,
          pipelineVars>>

(***************************************************************************)
(* Bounds of the model                                                     *)
(***************************************************************************)
TicksPerDay == 2
MaxCalls    == 3
MaxAdvances == 1
MaxAdds     == 2

(***************************************************************************)
(* Program constants                                                       *)
(***************************************************************************)
CooldownDays     == 7     \* 7*24*time.Hour
HighHitThreshold == 10    \* DailyHits[today] > 10
BlacklistDays    == 3     \* HighHitDays >= 3
RetentionDays    == 30    \* ClearOldEntries(30 * 24 * time.Hour)
HistoryCap       == 10    \* last 10 status codes
maxBatchSize     == 25    \* send.go: maxBatchSize
rateLimitWait    == 2     \* send.go: rateLimitWait, in seconds
maxRetries       == 3     \* send.go: maxRetries

Cooldown  == CooldownDays * TicksPerDay
Retention == RetentionDays * TicksPerDay
OneDay    == TicksPerDay

\* time.Time{} and the dates the code can format or hold
ZeroTime == -1
ZeroDate == -2            \* time.Time{}.Format("2006-01-02")
NoDate   == -3            \* LastHighHitDate == ""

DateOf(t) == IF t = ZeroTime THEN ZeroDate ELSE t \div TicksPerDay

\* time.Since(t) >= d; the duration from the zero time saturates at the maximum
SinceAtLeast(t, d, tnow) == t = ZeroTime \/ tnow - t >= d

(***************************************************************************)
(* Hostnames are strings: sequences of characters.                         *)
(***************************************************************************)
ToLowerChar(c) == IF c = "A" THEN "a" ELSE IF c = "B" THEN "b" ELSE c

ToLower(s) == [i \in 1..Len(s) |-> ToLowerChar(s[i])]

TrimSuffixDot(s) ==
    IF Len(s) >= 1 /\ s[Len(s)] = "." THEN SubSeq(s, 1, Len(s) - 1) ELSE s

\* a normalization that keeps the trailing dot
NormalizeKeepsDot(h) == ToLower(h)

Normalize(h) == ToLower(TrimSuffixDot(h))

HasPrefix(s, p) == Len(s) >= Len(p) /\ SubSeq(s, 1, Len(p)) = p

IsWildcardDomain(d) == HasPrefix(d, <<"*", ".">>)

\* the hostnames the callers pass
Hosts == { <<"a">>, <<"A", ".">> }

Issuers == {"LE", "ZS"}

\* (statusCode, responseSize, lineCount, wordCount) of a probe
Probes == { <<200, 50, 1, 2>>, <<404, 600, 10, 20>> }

\* maxAge of a sweep, in ticks
MaxAges == { OneDay, Cooldown, Retention }

\* how far the clock moves between two calls
Advances == { 1, Cooldown - 1, Retention + 1 }

EmptyMap == [x \in {} |-> 0]

(***************************************************************************)
(* DomainEntry                                                             *)
(***************************************************************************)
ZeroEntry(d) ==
    [ domain |-> d, hitCount |-> 0,
      firstSeen |-> ZeroTime, lastSeen |-> ZeroTime, lastNotified |-> ZeroTime,
      resolved |-> FALSE, blacklisted |-> FALSE, blacklistedDate |-> ZeroTime,
      dailyHits |-> EmptyMap, highHitDays |-> 0, lastHighHitDate |-> NoDate,
      httpStatusCode |-> 0, responseSize |-> 0,
      responseLineCount |-> 0, responseWordCount |-> 0,
      riskLabels |-> <<>>, riskScore |-> 0,
      certIssuer |-> "", previousIssuer |-> "",
      statusCodeHistory |-> <<>>, isDuplicate |-> FALSE ]

Put(tbl, k, e) == [x \in (DOMAIN tbl) \cup {k} |-> IF x = k THEN e ELSE tbl[x]]

Get(m, k) == IF k \in DOMAIN m THEN m[k] ELSE 0

(***************************************************************************)
(* calculateRisk / addRiskLabel                                            *)
(***************************************************************************)
addRiskLabelAgain(e, label) == [e EXCEPT !.riskLabels = Append(@, label)]

addRiskLabel(e, label) ==
    IF \E i \in 1..Len(e.riskLabels) : e.riskLabels[i] = label
    THEN e
    ELSE [e EXCEPT !.riskLabels = Append(@, label)]

Distinct(s) == { s[i] : i \in 1..Len(s) }

calculateRisk(e) ==
    LET wild    == IsWildcardDomain(e.domain)
        anomaly == Len(e.statusCodeHistory) >= 3
                   /\ Cardinality(Distinct(e.statusCodeHistory)) >= 3
        freq    == e.hitCount > 50 \/ e.highHitDays >= 2
        issuer  == e.previousIssuer # ""
        resp    == e.responseSize > 0
                   /\ (e.responseSize < 100 \/ e.responseSize > 1000000)
        e1 == IF wild THEN addRiskLabel(e, "wildcard") ELSE e
        e2 == IF anomaly THEN addRiskLabel(e1, "status-anomaly") ELSE e1
        e3 == IF freq THEN addRiskLabel(e2, "high-frequency") ELSE e2
        e4 == IF resp THEN addRiskLabel(e3, "response-anomaly") ELSE e3
        score == (IF wild THEN 30 ELSE 0) + (IF anomaly THEN 20 ELSE 0)
                 + (IF freq THEN 25 ELSE 0) + (IF issuer THEN 15 ELSE 0)
                 + (IF resp THEN 10 ELSE 0)
        capped == IF score > 100 THEN 100 ELSE score
    IN  [e4 EXCEPT !.riskScore = capped,
                   !.isDuplicate = IF e.hitCount > 100 /\ e.responseSize < 500
                                   THEN TRUE ELSE @]

(***************************************************************************)
(* updateDailyHits (the entry it leaves; it always ends in save())         *)
(***************************************************************************)
updateDailyHitsLateBlacklist(e, t) ==
    LET today     == DateOf(t)
        yesterday == today - 1
        e1 == [e EXCEPT !.dailyHits = Put(@, today, Get(@, today) + 1)]
    IN  IF e1.dailyHits[today] > HighHitThreshold /\ e.lastHighHitDate # today
        THEN LET days == IF e.lastHighHitDate = yesterday
                         THEN e.highHitDays + 1 ELSE 1
                 e2   == [e1 EXCEPT !.highHitDays = days,
                                    !.lastHighHitDate = today]
             IN  IF days > BlacklistDays
                 THEN [e2 EXCEPT !.blacklisted = TRUE, !.blacklistedDate = t]
                 ELSE e2
        ELSE e1

\* a variant that goes on counting after a gap
updateDailyHitsNoReset(e, t) ==
    LET today == DateOf(t)
        e1 == [e EXCEPT !.dailyHits = Put(@, today, Get(@, today) + 1)]
    IN  IF e1.dailyHits[today] > HighHitThreshold /\ e.lastHighHitDate # today
        THEN LET days == e.highHitDays + 1
                 e2   == [e1 EXCEPT !.highHitDays = days,
                                    !.lastHighHitDate = today]
             IN  IF days >= BlacklistDays
                 THEN [e2 EXCEPT !.blacklisted = TRUE, !.blacklistedDate = t]
                 ELSE e2
        ELSE e1

\* a variant that blacklists one day early
updateDailyHitsEarlyBlacklist(e, t) ==
    LET today     == DateOf(t)
        yesterday == today - 1
        e1 == [e EXCEPT !.dailyHits = Put(@, today, Get(@, today) + 1)]
    IN  IF e1.dailyHits[today] > HighHitThreshold /\ e.lastHighHitDate # today
        THEN LET days == IF e.lastHighHitDate = yesterday
                         THEN e.highHitDays + 1 ELSE 1
                 e2   == [e1 EXCEPT !.highHitDays = days,
                                    !.lastHighHitDate = today]
             IN  IF days >= BlacklistDays - 1
                 THEN [e2 EXCEPT !.blacklisted = TRUE, !.blacklistedDate = t]
                 ELSE e2
        ELSE e1

updateDailyHits(e, t) ==
    LET today     == DateOf(t)
        yesterday == today - 1
        e1 == [e EXCEPT !.dailyHits = Put(@, today, Get(@, today) + 1)]
    IN  IF e1.dailyHits[today] > HighHitThreshold /\ e.lastHighHitDate # today
        THEN LET days == IF e.lastHighHitDate = yesterday
                         THEN e.highHitDays + 1 ELSE 1
                 e2   == [e1 EXCEPT !.highHitDays = days,
                                    !.lastHighHitDate = today]
             IN  IF days >= BlacklistDays
                 THEN [e2 EXCEPT !.blacklisted = TRUE, !.blacklistedDate = t]
                 ELSE e2
        ELSE e1

(***************************************************************************)
(* ShouldNotifyDomain                                                      *)
(***************************************************************************)
\* the entry of a first sighting (tracking.go:93-101)
NewEntryNotStamped(d, t) ==
    [ZeroEntry(d) EXCEPT !.hitCount = 1, !.firstSeen = t, !.lastSeen = t,
                         !.dailyHits = Put(EmptyMap, DateOf(t), 1)]

NewEntry(d, t) ==
    [ZeroEntry(d) EXCEPT !.hitCount = 1, !.firstSeen = t, !.lastSeen = t,
                         !.lastNotified = t,
                         !.dailyHits = Put(EmptyMap, DateOf(t), 1)]

\* timeSinceNotified >= 7*24*time.Hour && today != lastNotifiedDate
CooldownElapsedDateOnly(e, t) == DateOf(t) # DateOf(e.lastNotified)

CooldownElapsed(e, t) ==
    /\ SinceAtLeast(e.lastNotified, Cooldown, t)
    /\ DateOf(t) # DateOf(e.lastNotified)

\* the blacklisted branch (tracking.go:106-111)
BlacklistedHit(e, t) == [e EXCEPT !.hitCount = @ + 1, !.lastSeen = t]

\* the notifying branch (tracking.go:119-125)
NotifyHitNotStamped(e, t) ==
    updateDailyHits([e EXCEPT !.hitCount = @ + 1, !.lastSeen = t], t)

NotifyHit(e, t) ==
    updateDailyHits([e EXCEPT !.hitCount = @ + 1, !.lastSeen = t,
                              !.lastNotified = t], t)

\* the suppressed branch (tracking.go:128-131)
SuppressedHit(e, t) ==
    updateDailyHits([e EXCEPT !.hitCount = @ + 1, !.lastSeen = t], t)

\* the table, the return value, whether save() ran, and the branch taken
ShouldNotifyStep(tbl, h, t) ==
    LET d == Normalize(h) IN
    IF d \notin DOMAIN tbl
    THEN [tbl |-> Put(tbl, d, NewEntry(d, t)), ret |-> TRUE,
          saved |-> FALSE, branch |-> "first"]
    ELSE LET e == tbl[d] IN
         IF e.blacklisted
         THEN [tbl |-> Put(tbl, d, BlacklistedHit(e, t)), ret |-> FALSE,
               saved |-> FALSE, branch |-> "blacklisted"]
         ELSE IF CooldownElapsed(e, t)
         THEN [tbl |-> Put(tbl, d, NotifyHit(e, t)), ret |-> TRUE,
               saved |-> TRUE, branch |-> "notify"]
         ELSE [tbl |-> Put(tbl, d, SuppressedHit(e, t)), ret |-> FALSE,
               saved |-> TRUE, branch |-> "suppressed"]

(***************************************************************************)
(* ForceNotifyDomain, RecordDomain*, ClearOldEntries                       *)
(***************************************************************************)
ForceNotifyStep(tbl, h, t) ==
    LET d == Normalize(h) IN
    IF d \notin DOMAIN tbl
    THEN Put(tbl, d, NewEntry(d, t))
    ELSE Put(tbl, d, updateDailyHits([tbl[d] EXCEPT !.hitCount = @ + 1,
                                                    !.lastSeen = t,
                                                    !.lastNotified = t], t))

RecordResolutionStep(tbl, h, resolved, t) ==
    LET d == Normalize(h)
        e == IF d \in DOMAIN tbl THEN tbl[d]
             ELSE [ZeroEntry(d) EXCEPT !.firstSeen = t, !.lastSeen = t]
    IN  Put(tbl, d, [e EXCEPT !.resolved = resolved])

\* a history that keeps its oldest codes
KeepFirst(s, n) == IF Len(s) > n THEN SubSeq(s, 1, n) ELSE s

KeepLast(s, n) == IF Len(s) > n THEN SubSeq(s, Len(s) - n + 1, Len(s)) ELSE s

RecordMetadataStep(tbl, h, p) ==
    LET d == Normalize(h) IN
    IF d \notin DOMAIN tbl THEN tbl
    ELSE Put(tbl, d, calculateRisk(
            [tbl[d] EXCEPT !.statusCodeHistory = KeepLast(Append(@, p[1]), HistoryCap),
                           !.httpStatusCode = p[1], !.responseSize = p[2],
                           !.responseLineCount = p[3], !.responseWordCount = p[4]]))

\* a variant that notes the old issuer without the label
RecordIssuerStepNoLabel(tbl, h, issuer) ==
    LET d == Normalize(h) IN
    IF d \notin DOMAIN tbl THEN tbl
    ELSE LET e  == tbl[d]
             e1 == IF e.certIssuer # "" /\ e.certIssuer # issuer
                   THEN [e EXCEPT !.previousIssuer = e.certIssuer]
                   ELSE e
         IN  Put(tbl, d, calculateRisk([e1 EXCEPT !.certIssuer = issuer]))

RecordIssuerStep(tbl, h, issuer) ==
    LET d == Normalize(h) IN
    IF d \notin DOMAIN tbl THEN tbl
    ELSE LET e  == tbl[d]
             e1 == IF e.certIssuer # "" /\ e.certIssuer # issuer
                   THEN addRiskLabel([e EXCEPT !.previousIssuer = e.certIssuer],
                                     "issuer-change")
                   ELSE e
         IN  Put(tbl, d, calculateRisk([e1 EXCEPT !.certIssuer = issuer]))

\* a sweep that also removes the entries exactly maxAge old
StaleAtLeast(tbl, maxAge, t) == { d \in DOMAIN tbl : t - tbl[d].lastSeen >= maxAge }

\* the hostnames a sweep removes: now.Sub(entry.LastSeen) > maxAge
Stale(tbl, maxAge, t) == { d \in DOMAIN tbl : t - tbl[d].lastSeen > maxAge }

ClearStep(tbl, maxAge, t) ==
    [d \in (DOMAIN tbl) \ Stale(tbl, maxAge, t) |-> tbl[d]]

(***************************************************************************)
(* The state the tracker starts a run from: the table an earlier sequence  *)
(* of ShouldNotifyDomain calls has left.                                   *)
(***************************************************************************)
RECURSIVE Hits(_, _, _, _)
\* n calls ShouldNotifyDomain(h) at time t
Hits(tbl, h, t, n) ==
    IF n = 0 THEN tbl ELSE Hits(ShouldNotifyStep(tbl, h, t).tbl, h, t, n - 1)

RECURSIVE HighDays(_, _, _, _)
\* n consecutive days, from day `day`, each with HighHitThreshold+1 calls
HighDays(tbl, h, day, n) ==
    IF n = 0 THEN tbl
    ELSE HighDays(Hits(tbl, h, day * OneDay, HighHitThreshold + 1), h, day + 1, n - 1)

\* BlacklistDays-1 high-hit days, and HighHitThreshold calls on the day after
EdgeTable ==
    Hits(HighDays(EmptyMap, <<"a">>, 0, BlacklistDays - 1),
         <<"a">>, (BlacklistDays - 1) * OneDay, HighHitThreshold)

Starts == { [tbl |-> EmptyMap, at |-> 0],
            [tbl |-> EdgeTable, at |-> (BlacklistDays - 1) * OneDay + 1] }

NoCall == [op |-> "none", key |-> <<>>, t |-> 0, ret |-> FALSE, branch |-> "",
           known |-> FALSE, prevTrue |-> ZeroTime, prevBranch |-> "",
           wasAuto |-> FALSE, wasShort |-> FALSE,
           afterFresh |-> FALSE, gap |-> 0, preBlack |-> FALSE,
           arg |-> <<>>, n |-> 0]

TrackerInit ==
    /\ \E s \in Starts :
          /\ domains = s.tbl
          /\ disk = s.tbl
          /\ now = s.at
          /\ lastTrue = [d \in DOMAIN s.tbl |-> <<s.tbl[d].lastNotified, "first">>]
          /\ autoBlack = { d \in DOMAIN s.tbl : s.tbl[d].blacklisted }
    /\ nCalls = 0
    /\ nAdvances = 0
    /\ last = NoCall
    /\ shortSwept = {}
    /\ fresh = <<>>

LastTrueOf(d) == IF d \in DOMAIN lastTrue THEN lastTrue[d] ELSE <<ZeroTime, "">>

\* what a call on hostname d observes of the history before it
Call(op, d) ==
    [NoCall EXCEPT !.op = op, !.key = d, !.t = now,
                   !.known = d \in DOMAIN domains,
                   !.prevTrue = LastTrueOf(d)[1],
                   !.prevBranch = LastTrueOf(d)[2],
                   !.wasAuto = d \in autoBlack,
                   !.wasShort = d \in shortSwept,
                   !.afterFresh = fresh # <<>> /\ fresh[1] = d,
                   !.gap = IF fresh # <<>> /\ fresh[1] = d THEN now - fresh[2] ELSE 0,
                   !.preBlack = d \in DOMAIN domains /\ domains[d].blacklisted]

\* hostnames whose entry the automatic rule has just blacklisted
NewlyBlack(old, new) ==
    { d \in DOMAIN new : new[d].blacklisted
                         /\ ~(d \in DOMAIN old /\ old[d].blacklisted) }

(***************************************************************************)
(* The tracker's operations                                                *)
(***************************************************************************)
ShouldNotifyDomain(h) ==
    /\ UNCHANGED <<batcherVars, senderVars, adminVars, callerVars, pipelineVars>>
    /\ nCalls < MaxCalls
    /\ LET d == Normalize(h)
           r == ShouldNotifyStep(domains, h, now)
       IN  /\ domains' = r.tbl
           /\ disk' = IF r.saved THEN r.tbl ELSE disk
           /\ last' = [Call("ShouldNotifyDomain", d) EXCEPT !.ret = r.ret,
                                                           !.branch = r.branch]
           /\ lastTrue' = IF r.ret THEN Put(lastTrue, d, <<now, r.branch>>)
                           ELSE lastTrue
           /\ shortSwept' = IF r.ret THEN shortSwept \ {d} ELSE shortSwept
           /\ autoBlack' = autoBlack \cup NewlyBlack(domains, r.tbl)
           /\ fresh' = IF r.branch = "first" THEN <<d, now>> ELSE <<>>
    /\ nCalls' = nCalls + 1
    /\ UNCHANGED <<now, nAdvances>>

ForceNotifyDomain(h) ==
    /\ UNCHANGED <<batcherVars, senderVars, adminVars, callerVars, pipelineVars>>
    /\ nCalls < MaxCalls
    /\ LET d   == Normalize(h)
           tbl == ForceNotifyStep(domains, h, now)
       IN  /\ domains' = tbl
           /\ disk' = tbl
           /\ last' = Call("ForceNotifyDomain", d)
           /\ autoBlack' = autoBlack \cup NewlyBlack(domains, tbl)
    /\ nCalls' = nCalls + 1
    /\ fresh' = <<>>
    /\ UNCHANGED <<now, nAdvances, lastTrue, shortSwept>>

RecordDomainResolution(h, resolved) ==
    /\ UNCHANGED <<batcherVars, senderVars, adminVars, callerVars, pipelineVars>>
    /\ nCalls < MaxCalls
    /\ LET tbl == RecordResolutionStep(domains, h, resolved, now)
       IN  /\ domains' = tbl
           /\ disk' = tbl
    /\ last' = [NoCall EXCEPT !.op = "RecordDomainResolution"]
    /\ nCalls' = nCalls + 1
    /\ fresh' = <<>>
    /\ UNCHANGED <<now, nAdvances, lastTrue, autoBlack, shortSwept>>

RecordDomainIssuer(h, issuer) ==
    /\ UNCHANGED <<batcherVars, senderVars, adminVars, callerVars, pipelineVars>>
    /\ nCalls < MaxCalls
    /\ LET tbl == RecordIssuerStep(domains, h, issuer)
       IN  /\ domains' = tbl
           /\ disk' = IF Normalize(h) \in DOMAIN domains THEN tbl ELSE disk
    /\ last' = [Call("RecordDomainIssuer", Normalize(h)) EXCEPT !.arg = <<issuer>>]
    /\ nCalls' = nCalls + 1
    /\ fresh' = <<>>
    /\ UNCHANGED <<now, nAdvances, lastTrue, autoBlack, shortSwept>>

RecordDomainMetadata(h, p) ==
    /\ UNCHANGED <<batcherVars, senderVars, adminVars, callerVars, pipelineVars>>
    /\ nCalls < MaxCalls
    /\ LET tbl == RecordMetadataStep(domains, h, p)
       IN  /\ domains' = tbl
           /\ disk' = IF Normalize(h) \in DOMAIN domains THEN tbl ELSE disk
    /\ last' = [Call("RecordDomainMetadata", Normalize(h)) EXCEPT !.arg = p]
    /\ nCalls' = nCalls + 1
    /\ fresh' = <<>>
    /\ UNCHANGED <<now, nAdvances, lastTrue, autoBlack, shortSwept>>

ClearOldEntries(maxAge) ==
    /\ UNCHANGED <<batcherVars, senderVars, adminVars, callerVars, pipelineVars>>
    /\ LET gone == Stale(domains, maxAge, now)
           tbl  == ClearStep(domains, maxAge, now)
       IN  /\ domains' = tbl
           /\ disk' = IF gone # {} THEN tbl ELSE disk
           /\ shortSwept' = IF maxAge < Cooldown THEN shortSwept \cup gone
                            ELSE shortSwept
    /\ last' = [NoCall EXCEPT !.op = "ClearOldEntries"]
    /\ fresh' = <<>>
    /\ UNCHANGED <<now, nCalls, nAdvances, lastTrue, autoBlack>>

\* time passes between two calls
Advance(by) ==
    /\ UNCHANGED <<batcherVars, senderVars, adminVars, callerVars, pipelineVars>>
    /\ nAdvances < MaxAdvances
    /\ now' = now + by
    /\ nAdvances' = nAdvances + 1
    /\ last' = NoCall
    /\ UNCHANGED <<domains, disk, nCalls, lastTrue,
                   autoBlack, shortSwept, fresh>>

TrackerNext ==
    \/ \E h \in Hosts : ShouldNotifyDomain(h)
    \/ \E h \in Hosts : ForceNotifyDomain(h)
    \/ \E h \in Hosts, r \in BOOLEAN : RecordDomainResolution(h, r)
    \/ \E h \in Hosts, i \in Issuers : RecordDomainIssuer(h, i)
    \/ \E h \in Hosts, p \in Probes : RecordDomainMetadata(h, p)
    \/ \E a \in MaxAges : ClearOldEntries(a)
    \/ \E by \in Advances : Advance(by)

(***************************************************************************)
(* Properties of the tracker                                               *)
(***************************************************************************)
IsCheck == last.op = "ShouldNotifyDomain"

IsHit == last.op \in {"ShouldNotifyDomain", "ForceNotifyDomain"}

HighDay(e, day) == Get(e.dailyHits, day) > HighHitThreshold

C2_CooldownAnySweep ==
    (IsCheck /\ last.ret /\ last.prevTrue # ZeroTime /\ last.prevTrue < last.t)
        => last.t - last.prevTrue >= Cooldown

\* C2 as amended: the same, for sweeps with maxAge of at least 7 days: a
\* call that returns true less than 7 days after the previous true return
\* follows an eviction by a sweep with maxAge below 7 days.
C2_Cooldown ==
    (IsCheck /\ last.ret /\ last.prevTrue # ZeroTime /\ last.prevTrue < last.t
       /\ ~last.wasShort)
        => last.t - last.prevTrue >= Cooldown

C2_Witness ==
    /\ IsCheck /\ ~last.ret /\ last.branch = "suppressed"
    /\ last.prevTrue # ZeroTime
    /\ last.t - last.prevTrue = Cooldown - 1

\* C3: once updateDailyHits has blacklisted a hostname, every later
\* ShouldNotifyDomain call for it returns false, under any sequence of the
\* tracker's own operations, sweeps included.
C3_BlacklistSticky == (IsCheck /\ last.wasAuto) => ~last.ret

\* C4: an entry with more than 10 hits on each of three consecutive days
\* D, D+1, D+2 is blacklisted, and the 11th hit of day D+2 is the one that
\* sets blacklisted and puts blacklistedDate on day D+2.
C4_BlacklistTrigger ==
    /\ \A d \in DOMAIN domains : \A day \in DOMAIN domains[d].dailyHits :
          (HighDay(domains[d], day) /\ HighDay(domains[d], day + 1)
             /\ HighDay(domains[d], day + 2))
          => domains[d].blacklisted
    /\ (/\ IsHit
        /\ last.key \in DOMAIN domains
        /\ Get(domains[last.key].dailyHits, DateOf(last.t)) = HighHitThreshold + 1
        /\ HighDay(domains[last.key], DateOf(last.t) - 1)
        /\ HighDay(domains[last.key], DateOf(last.t) - 2))
       => /\ domains[last.key].blacklisted
          /\ domains[last.key].blacklistedDate # ZeroTime
          /\ DateOf(domains[last.key].blacklistedDate) = DateOf(last.t)

C4_Witness ==
    /\ IsCheck /\ ~last.preBlack
    /\ last.key \in DOMAIN domains
    /\ domains[last.key].blacklisted
    /\ domains[last.key].blacklistedDate = last.t
    /\ Get(domains[last.key].dailyHits, DateOf(last.t)) = HighHitThreshold + 1
    /\ HighDay(domains[last.key], DateOf(last.t) - 1)
    /\ HighDay(domains[last.key], DateOf(last.t) - 2)

\* C5: two ShouldNotifyDomain(H) calls on the same calendar day never both
\* return true.
C5_OncePerDay ==
    (IsCheck /\ last.ret /\ last.prevTrue # ZeroTime)
        => DateOf(last.prevTrue) # DateOf(last.t)

\* the second call of a day whose first call returned true after the cooldown
C5_Witness ==
    /\ IsCheck /\ ~last.ret
    /\ last.prevBranch = "notify"
    /\ last.t - last.prevTrue < Cooldown
    /\ DateOf(last.prevTrue) = DateOf(last.t)

\* C27: hostnames that differ only in letter case or in one trailing dot
\* address the same entry in every tracker operation (on every table the
\* tracker reaches, each operation does the same for all spellings of a
\* hostname, so the table never holds a second entry for it), and every key
\* of the table is the domain field of its entry.
C27_OneEntryPerHostname ==
    /\ \A d \in DOMAIN domains : domains[d].domain = d /\ d = <<"a">>
    /\ LET check(h)   == ShouldNotifyStep(domains, h, now)
           force(h)   == ForceNotifyStep(domains, h, now)
           resolve(h) == RecordResolutionStep(domains, h, TRUE, now)
           issuer(h)  == RecordIssuerStep(domains, h, "LE")
           probe(h)   == RecordMetadataStep(domains, h, <<200, 50, 1, 2>>)
           read(h)    == IF Normalize(h) \in DOMAIN domains
                         THEN <<domains[Normalize(h)]>> ELSE <<>>
       IN  \A h1, h2 \in Hosts :
               /\ check(h1) = check(h2)
               /\ force(h1) = force(h2)
               /\ resolve(h1) = resolve(h2)
               /\ issuer(h1) = issuer(h2)
               /\ probe(h1) = probe(h2)
               /\ read(h1) = read(h2)

\* the entry made by ShouldNotifyDomain has been hit again, and a call with
\* the upper-case, dotted spelling counts on that entry
C27_Witness ==
    /\ IsCheck
    /\ ~last.ret
    /\ DOMAIN domains = {<<"a">>}
    /\ domains[<<"a">>].hitCount >= 2
    /\ LET r == ShouldNotifyStep(domains, <<"A", ".">>, now)
       IN  /\ DOMAIN r.tbl = {<<"a">>}
           /\ r.tbl[<<"a">>].hitCount = domains[<<"a">>].hitCount + 1

(***************************************************************************)
(* Daily hits: the tracker started from the tables that days of calls     *)
(* leave, each day without a call, with HighHitThreshold calls or with one *)
(* more, and the current day with none or HighHitThreshold calls so far.   *)
(***************************************************************************)
DayKinds == {"gap", "low", "high"}

HitsOfKind(k) ==
    IF k = "gap" THEN 0
    ELSE IF k = "low" THEN HighHitThreshold ELSE HighHitThreshold + 1

\* the days before the current one
Patterns == UNION { [1..n -> DayKinds] : n \in 0..BlacklistDays }

RECURSIVE Sightings(_, _, _, _)
\* the table after n further calls ShouldNotifyDomain(h) at time t, none of
\* which finds the entry blacklisted
Sightings(tbl, h, t, n) ==
    IF n = 0 \/ (Normalize(h) \in DOMAIN tbl /\ tbl[Normalize(h)].blacklisted)
    THEN tbl
    ELSE Sightings(ShouldNotifyStep(tbl, h, t).tbl, h, t, n - 1)

RECURSIVE DaysOf(_, _, _, _)
\* the calls ShouldNotifyDomain(h) of the days of pat, the first on day `day`
DaysOf(tbl, h, pat, day) ==
    IF pat = <<>> THEN tbl
    ELSE DaysOf(Sightings(tbl, h, day * OneDay, HitsOfKind(Head(pat))),
                h, Tail(pat), day + 1)

DailyStarts ==
    { [tbl |-> Sightings(DaysOf(EmptyMap, <<"a">>, pat, 0), <<"a">>,
                         Len(pat) * OneDay, HitsOfKind(k)),
       at  |-> Len(pat) * OneDay + 1] : pat \in Patterns, k \in {"gap", "low"} }

DailyAdvances == {1, OneDay}

DailyInit ==
    /\ \E st \in DailyStarts :
          /\ domains = st.tbl
          /\ disk = st.tbl
          /\ now = st.at
          /\ lastTrue = [d \in DOMAIN st.tbl |-> <<st.tbl[d].lastNotified, "first">>]
          /\ autoBlack = { d \in DOMAIN st.tbl : st.tbl[d].blacklisted }
    /\ nCalls = 0
    /\ nAdvances = 0
    /\ last = NoCall
    /\ shortSwept = {}
    /\ fresh = <<>>

DailyNext ==
    \/ \E h \in Hosts : ShouldNotifyDomain(h)
    \/ \E h \in Hosts : ForceNotifyDomain(h)
    \/ \E by \in DailyAdvances : Advance(by)

\* a call that counts a hit is made
HitCall == nCalls' = nCalls + 1 /\ last'.op \in {"ShouldNotifyDomain", "ForceNotifyDomain"}

\* C29: the first hit that takes dailyHits[today] above HighHitThreshold
\* on a day other than lastHighHitDate sets highHitDays to highHitDays + 1
\* if lastHighHitDate is yesterday and to 1 otherwise, and lastHighHitDate
\* to today; further hits of that day, hits of a day whose count stays at
\* or below the threshold, and everything else leave both fields alone.
C29_HighHitDays ==
    [][\A d \in DOMAIN domains \cap DOMAIN domains' :
          LET e     == domains[d]
              e2    == domains'[d]
              today == DateOf(now)
          IN  IF /\ HitCall
                 /\ last'.key = d
                 /\ Get(e.dailyHits, today) <= HighHitThreshold
                 /\ Get(e2.dailyHits, today) > HighHitThreshold
                 /\ e.lastHighHitDate # today
              THEN /\ e2.highHitDays = IF e.lastHighHitDate = today - 1
                                       THEN e.highHitDays + 1 ELSE 1
                   /\ e2.lastHighHitDate = today
              ELSE /\ e2.highHitDays = e.highHitDays
                   /\ e2.lastHighHitDate = e.lastHighHitDate]_vars

\* the eleventh hit of a day has just reset highHitDays to 1, the last
\* high-hit day lying two or more days back
C29_Witness ==
    /\ IsHit
    /\ last.key \in DOMAIN domains
    /\ LET e == domains[last.key] IN
          /\ Get(e.dailyHits, DateOf(now)) = HighHitThreshold + 1
          /\ e.lastHighHitDate = DateOf(now)
          /\ e.highHitDays = 1
          /\ \E day \in DOMAIN e.dailyHits :
                day < DateOf(now) - 1 /\ e.dailyHits[day] > HighHitThreshold

\* C30: without administrative action an entry is blacklisted only when
\* its hostname has had more than HighHitThreshold counted hits on each of
\* three consecutive calendar days, the last of them the day it was
\* blacklisted; hits of one or two days, or high-hit days separated by a
\* gap, do not blacklist it.
C30_ThreeConsecutiveDays ==
    \A d \in DOMAIN domains :
        domains[d].blacklisted =>
            \A k \in 0..(BlacklistDays - 1) :
                Get(domains[d].dailyHits, DateOf(domains[d].blacklistedDate) - k)
                    > HighHitThreshold

\* an entry has just been blacklisted by the eleventh hit of its third
\* high-hit day in a row
C30_Witness ==
    /\ IsHit
    /\ last.key \in DOMAIN domains
    /\ ~last.preBlack
    /\ LET e == domains[last.key] IN
          /\ e.blacklisted
          /\ e.blacklistedDate = now
          /\ e.highHitDays = BlacklistDays
          /\ Get(e.dailyHits, DateOf(now)) = HighHitThreshold + 1

(***************************************************************************)
(* notificationBuffer (send.go).  A hostname handed to add is named by the *)
(* number of its add call; the calls made before the model takes over are  *)
(* numbered up to 0.  A timer is named by its position in timerState.      *)
(***************************************************************************)
Targets == {"t1", "t2"}

Remove(m, k) == [x \in (DOMAIN m) \ {k} |-> m[x]]

Buffered(p, tg) == IF tg \in DOMAIN p THEN p[tg] ELSE <<>>

\* n.pending[target] = append(n.pending[target], domain)
AppendItemInFront(buf, item) == <<item>> \o buf

AppendItem(buf, item) == Append(buf, item)

\* len(n.pending[target]) >= maxBatchSize
SizeReachedLate(buf) == Len(buf) > maxBatchSize

SizeReached(buf) == Len(buf) >= maxBatchSize

\* timer.Stop(): a timer that has not fired never will; one that has fired
\* has its flush running already and is not affected
StopTimer(ts, x) ==
    IF ts[x].st = "armed" THEN [ts EXCEPT ![x].st = "stopped"] ELSE ts

NewTimer(tg) == [target |-> tg, st |-> "armed", batch |-> <<>>]

\* the body of add, between Lock and Unlock (send.go:39-56): the maps it
\* leaves and the batch it starts `go n.send` with, if any
AddStep(p, tm, ts, tg, item) ==
    LET buf == AppendItem(Buffered(p, tg), item) IN
    IF SizeReached(buf)
    THEN [pending    |-> Remove(p, tg),
          timers     |-> Remove(tm, tg),
          timerState |-> IF tg \in DOMAIN tm THEN StopTimer(ts, tm[tg]) ELSE ts,
          spawn      |-> {<<tg, buf>>}]
    ELSE [pending    |-> Put(p, tg, buf),
          timers     |-> IF tg \in DOMAIN tm THEN tm ELSE Put(tm, tg, Len(ts) + 1),
          timerState |-> IF tg \in DOMAIN tm THEN ts ELSE Append(ts, NewTimer(tg)),
          spawn      |-> {}]

\* the critical section of flush (send.go:60-68): the maps it leaves and the
\* batch it goes on to send, <<>> when it returns early
FlushStepKeepsBuffer(p, tm, tg) ==
    IF tg \notin DOMAIN p \/ Len(p[tg]) = 0
    THEN [pending |-> p, timers |-> tm, batch |-> <<>>]
    ELSE [pending |-> p, timers |-> Remove(tm, tg), batch |-> p[tg]]

FlushStep(p, tm, tg) ==
    IF tg \notin DOMAIN p \/ Len(p[tg]) = 0
    THEN [pending |-> p, timers |-> tm, batch |-> <<>>]
    ELSE [pending |-> Remove(p, tg), timers |-> Remove(tm, tg), batch |-> p[tg]]

RECURSIVE FilledFrom(_, _)
\* the batcher after the calls add("t1", i), ..., add("t1", 0), one after the
\* other, as far as they go without detaching a batch
FilledFrom(i, b) ==
    IF i > 0 \/ b.spawn # {} THEN b
    ELSE FilledFrom(i + 1, AddStep(b.pending, b.timers, b.timerState, "t1", i))

\* the batcher after n calls of add("t1", _)
Filled(n) ==
    FilledFrom(1 - n, [pending |-> EmptyMap, timers |-> EmptyMap,
                       timerState |-> <<>>, spawn |-> {}])

\* how many add calls have been made when the model takes over
Prefills == {0, maxBatchSize - 2, maxBatchSize - 1}

Free == <<>>

\* a lock that is kept by whoever held it
UnlockNever(holder) == holder

\* n.mu.Unlock(): deferred in add (send.go:37), before send in flush
\* (send.go:63, 68)
Unlock(holder) == Free

BatcherInit ==
    \E n \in Prefills :
        /\ pending = Filled(n).pending
        /\ timers = Filled(n).timers
        /\ timerState = [x \in 1..Len(Filled(n).timerState) |->
                            [target |-> Filled(n).timerState[x].target,
                             st     |-> Filled(n).timerState[x].st,
                             batch  |-> <<>>, first |-> 1, upto |-> 0]]
        /\ mu = Free
        /\ adds = {}
        /\ spawned = {}
        /\ sent = <<>>
        /\ nAdds = 0
        /\ addOrder = [tg \in Targets |->
                          IF tg = "t1" THEN [i \in 1..n |-> i - n] ELSE <<>>]
        /\ detached = [tg \in Targets |-> <<>>]
        /\ justAdded = <<>>
        /\ passed = (1 - n)..0

\* the batcher of a run in which nothing is handed to it
BatcherIdle ==
    /\ pending = EmptyMap
    /\ timers = EmptyMap
    /\ timerState = <<>>
    /\ mu = Free
    /\ adds = {}
    /\ spawned = {}
    /\ sent = <<>>
    /\ nAdds = 0
    /\ addOrder = [tg \in Targets |-> <<>>]
    /\ detached = [tg \in Targets |-> <<>>]
    /\ justAdded = <<>>
    /\ passed = {}

\* go sendToDiscord(domain, target): an add call starts and waits for n.mu
AddCall(tg) ==
    /\ UNCHANGED <<trackerVars, senderVars, adminVars, callerVars, pipelineVars>>
    /\ nAdds < MaxAdds
    /\ nAdds' = nAdds + 1
    /\ adds' = adds \cup {[id |-> nAdds + 1, target |-> tg, pc |-> "lock"]}
    /\ justAdded' = <<>>
    /\ passed' = passed \cup {nAdds + 1}
    /\ UNCHANGED <<pending, timers, mu, timerState, spawned, sent,
                   addOrder, detached>>

\* n.mu.Lock() in add
AddLock(c) ==
    /\ UNCHANGED <<trackerVars, senderVars, adminVars, callerVars, pipelineVars>>
    /\ c.pc = "lock"
    /\ mu = Free
    /\ mu' = <<"add", c.id>>
    /\ adds' = (adds \ {c}) \cup {[c EXCEPT !.pc = "body"]}
    /\ addOrder' = [addOrder EXCEPT ![c.target] = Append(@, c.id)]
    /\ justAdded' = <<>>
    /\ UNCHANGED <<pending, timers, timerState, spawned, sent, nAdds, detached, passed>>

\* the timers of ts with the history fields of the model's timers
WithHistory(ts, pos) ==
    [x \in 1..Len(ts) |->
        IF x <= Len(timerState)
        THEN [timerState[x] EXCEPT !.st = ts[x].st]
        ELSE [target |-> ts[x].target, st |-> ts[x].st, batch |-> <<>>,
              first |-> pos, upto |-> 0]]

\* send.go:39-56 and the deferred Unlock
AddBody(c) ==
    /\ UNCHANGED <<trackerVars, senderVars, adminVars, callerVars, pipelineVars>>
    /\ c.pc = "body"
    /\ mu = <<"add", c.id>>
    /\ LET r == AddStep(pending, timers, timerState, c.target, c.id)
       IN  /\ pending' = r.pending
           /\ timers' = r.timers
           /\ timerState' = WithHistory(r.timerState, Len(addOrder[c.target]))
           /\ spawned' = spawned \cup r.spawn
           /\ detached' = IF r.spawn = {} THEN detached
                          ELSE [detached EXCEPT ![c.target] =
                                   Append(@, (CHOOSE b \in r.spawn : TRUE)[2])]
    /\ justAdded' = [target |-> c.target, item |-> c.id,
                     before |-> Buffered(pending, c.target)]
    /\ mu' = Unlock(mu)
    /\ adds' = adds \ {c}
    /\ UNCHANGED <<sent, nAdds, addOrder, passed>>

\* the goroutine started by `go n.send(target, domains)` calls send
SendStart(b) ==
    /\ UNCHANGED <<trackerVars, senderVars, adminVars, callerVars, pipelineVars>>
    /\ spawned' = spawned \ {b}
    /\ sent' = Append(sent, b)
    /\ justAdded' = <<>>
    /\ UNCHANGED <<pending, timers, mu, timerState, adds, nAdds, addOrder, detached,
                   passed>>

\* batchDelay has passed: the runtime starts flush(target) in a goroutine
TimerFire(x) ==
    /\ UNCHANGED <<trackerVars, senderVars, adminVars, callerVars, pipelineVars>>
    /\ timerState[x].st = "armed"
    /\ timerState' = [timerState EXCEPT ![x].st = "fired"]
    /\ justAdded' = <<>>
    /\ UNCHANGED <<pending, timers, mu, adds, spawned, sent, nAdds, addOrder, detached,
                   passed>>

\* n.mu.Lock() in flush
FlushLock(x) ==
    /\ UNCHANGED <<trackerVars, senderVars, adminVars, callerVars, pipelineVars>>
    /\ timerState[x].st = "fired"
    /\ mu = Free
    /\ mu' = <<"flush", x>>
    /\ timerState' = [timerState EXCEPT ![x].st = "locked"]
    /\ justAdded' = <<>>
    /\ UNCHANGED <<pending, timers, adds, spawned, sent, nAdds, addOrder, detached,
                   passed>>

\* send.go:61-68
FlushBody(x) ==
    /\ UNCHANGED <<trackerVars, senderVars, adminVars, callerVars, pipelineVars>>
    /\ timerState[x].st = "locked"
    /\ mu = <<"flush", x>>
    /\ LET tg == timerState[x].target
           r  == FlushStep(pending, timers, tg)
       IN  /\ pending' = r.pending
           /\ timers' = r.timers
           /\ timerState' = [timerState EXCEPT
                  ![x].st = IF r.batch = <<>> THEN "done" ELSE "sending",
                  ![x].batch = r.batch,
                  ![x].upto = Len(addOrder[tg])]
           /\ detached' = IF r.batch = <<>> THEN detached
                          ELSE [detached EXCEPT ![tg] = Append(@, r.batch)]
    /\ mu' = Unlock(mu)
    /\ justAdded' = <<>>
    /\ UNCHANGED <<adds, spawned, sent, nAdds, addOrder, passed>>

\* n.send(target, domains) at the end of flush (send.go:70)
FlushSend(x) ==
    /\ UNCHANGED <<trackerVars, senderVars, adminVars, callerVars, pipelineVars>>
    /\ timerState[x].st = "sending"
    /\ timerState' = [timerState EXCEPT ![x].st = "done"]
    /\ sent' = Append(sent, <<timerState[x].target, timerState[x].batch>>)
    /\ justAdded' = <<>>
    /\ UNCHANGED <<pending, timers, mu, adds, spawned, nAdds, addOrder, detached,
                   passed>>

BatcherNext ==
    \/ \E tg \in Targets : AddCall(tg)
    \/ \E c \in adds : AddLock(c)
    \/ \E c \in adds : AddBody(c)
    \/ \E b \in spawned : SendStart(b)
    \/ \E x \in 1..Len(timerState) : TimerFire(x)
    \/ \E x \in 1..Len(timerState) : FlushLock(x)
    \/ \E x \in 1..Len(timerState) : FlushBody(x)
    \/ \E x \in 1..Len(timerState) : FlushSend(x)

(***************************************************************************)
(* Properties of the batcher                                               *)
(***************************************************************************)
RECURSIVE Concat(_)
\* the batches of a sequence of batches, one after the other
Concat(bs) == IF bs = <<>> THEN <<>> ELSE Head(bs) \o Concat(Tail(bs))

\* the hostname of the add call that holds n.mu and has not appended yet
InHand(tg) ==
    IF \E c \in adds : c.pc = "body" /\ c.target = tg
    THEN <<(CHOOSE c \in adds : c.pc = "body" /\ c.target = tg).id>>
    ELSE <<>>

\* the batches of target tg that send has been, or is about to be, called with
HandedToSend(tg) ==
    {sent[i][2] : i \in {j \in 1..Len(sent) : sent[j][1] = tg}}
        \cup {b[2] : b \in {c \in spawned : c[1] = tg}}
        \cup {timerState[x].batch :
                 x \in {y \in 1..Len(timerState) :
                           /\ timerState[y].target = tg
                           /\ timerState[y].st = "sending"}}

Range(q) == {q[i] : i \in 1..Len(q)}

\* C6: for each target, the batches detached so far, one after the other and
\* followed by what is still buffered, are the hostnames in the order in
\* which their add calls acquired n.mu; every batch handed to send is one of
\* the detached batches, and send is called with no batch twice.
C6_BatchOrder ==
    \A tg \in Targets :
        /\ Concat(detached[tg]) \o Buffered(pending, tg) \o InHand(tg)
              = addOrder[tg]
        /\ HandedToSend(tg) \subseteq Range(detached[tg])
        /\ \A i, j \in 1..Len(sent) : sent[i] = sent[j] => i = j

\* two batches of one target have been sent, and the add calls did not
\* acquire the lock in the order in which they were started
C6_Witness ==
    \E tg \in Targets :
        /\ Len(detached[tg]) >= 2
        /\ Cardinality({i \in 1..Len(sent) : sent[i][1] = tg}) >= 2
        /\ \E i, j \in 1..Len(addOrder[tg]) :
              i < j /\ addOrder[tg][i] > addOrder[tg][j]
        /\ adds = {}

\* C7: the add call that brings a target's buffer to maxBatchSize detaches
\* exactly those maxBatchSize hostnames into one send, and when it returns
\* the target has no buffer and no timer entry; no buffer is ever longer.
C7_SizeFlush ==
    /\ \A tg \in DOMAIN pending : Len(pending[tg]) < maxBatchSize
    /\ (justAdded # <<>> /\ Len(justAdded.before) + 1 >= maxBatchSize)
          => /\ justAdded.target \notin DOMAIN pending
             /\ justAdded.target \notin DOMAIN timers
             /\ Len(justAdded.before) + 1 = maxBatchSize
             /\ <<justAdded.target, Append(justAdded.before, justAdded.item)>>
                   \in spawned
             /\ \A b \in spawned :
                   (b[1] = justAdded.target /\ justAdded.item \in Range(b[2]))
                      => b[2] = Append(justAdded.before, justAdded.item)
             /\ detached[justAdded.target][Len(detached[justAdded.target])]
                   = Append(justAdded.before, justAdded.item)

\* the 25th add has just returned; the timer of the batch was still armed
\* when it ran
C7_Witness ==
    /\ justAdded # <<>>
    /\ Len(justAdded.before) + 1 = maxBatchSize
    /\ \E x \in 1..Len(timerState) :
          timerState[x].target = justAdded.target /\ timerState[x].st = "stopped"
    /\ justAdded.target \notin DOMAIN pending

\* the flush of timer x has run its critical section
Flushed(x) == timerState[x].st \in {"sending", "done"} /\ timerState[x].upto > 0

\* C8: when the timer armed by the first of k hostnames (1 <= k <
\* maxBatchSize) runs its flush and no other hostname has arrived, it
\* dispatches exactly those k hostnames, in arrival order, in one batch, and
\* leaves the target with no buffer and no timer.
C8_TimerFlush ==
    \A x \in 1..Len(timerState) :
        (/\ Flushed(x)
         /\ timerState[x].upto - timerState[x].first + 1 < maxBatchSize)
        => timerState[x].batch =
              SubSeq(addOrder[timerState[x].target],
                     timerState[x].first, timerState[x].upto)

\* C9: no hostname is lost or duplicated: the hostnames send has been called
\* with, those detached for a send that has not started, those buffered and
\* those of add calls that have not appended yet are, each exactly once, the
\* hostnames add has been called with; when no add and no send is under way,
\* the hostnames sent and the hostnames buffered are exactly those.
InTransit ==
    Concat([i \in 1..Len(sent) |-> sent[i][2]])
      \o Concat([x \in 1..Len(timerState) |->
                   IF timerState[x].st = "sending" THEN timerState[x].batch
                   ELSE <<>>])

RECURSIVE SetConcat(_)
\* the batches of a set of (target, batch) pairs, one after the other
SetConcat(bs) ==
    IF bs = {} THEN <<>>
    ELSE LET b == CHOOSE c \in bs : TRUE IN b[2] \o SetConcat(bs \ {b})

RECURSIVE MapConcat(_)
\* the buffers of a map target -> buffer, one after the other
MapConcat(m) ==
    IF DOMAIN m = {} THEN <<>>
    ELSE LET k == CHOOSE x \in DOMAIN m : TRUE IN m[k] \o MapConcat(Remove(m, k))

Waiting == {c.id : c \in adds}

Quiet ==
    /\ adds = {} /\ spawned = {}
    /\ \A x \in 1..Len(timerState) : timerState[x].st # "sending"

Accounted == InTransit \o SetConcat(spawned) \o MapConcat(pending)

C9_NoLossNoDup ==
    /\ Range(Accounted) \cup Waiting = passed
    /\ Len(Accounted) + Cardinality(Waiting) = Cardinality(passed)
    /\ Quiet =>
         /\ Range(Concat([i \in 1..Len(sent) |-> sent[i][2]]))
               \cup Range(MapConcat(pending)) = passed
         /\ Len(Concat([i \in 1..Len(sent) |-> sent[i][2]]))
               + Len(MapConcat(pending)) = Cardinality(passed)

\* the batch of a size-triggered and the batch of a timer-triggered flush
\* have been sent, and nothing is under way
C9_Witness ==
    /\ Quiet
    /\ \E i \in 1..Len(sent) : Len(sent[i][2]) = maxBatchSize
    /\ \E i \in 1..Len(sent) : Len(sent[i][2]) < maxBatchSize

\* the hostname timer x was armed for has left in a size-triggered flush
SizeFlushed(x) ==
    LET tg == timerState[x].target IN
    /\ timerState[x].first \in 1..Len(addOrder[tg])
    /\ \E i \in 1..Len(detached[tg]) :
          /\ Len(detached[tg][i]) = maxBatchSize
          /\ addOrder[tg][timerState[x].first] \in Range(detached[tg][i])

\* C23: after a size-triggered flush the flush of the timer that was armed
\* for the flushed hostnames dispatches nothing, also when the timer had
\* fired before the size-triggered flush and was waiting for the lock.
C23_StaleTimerSilent ==
    \A x \in 1..Len(timerState) :
        (SizeFlushed(x) /\ timerState[x].st \in {"sending", "done"})
        => timerState[x].batch = <<>>

\* C24: whenever the batcher lock is free, every target is either idle, with
\* no buffered hostname and no timer entry, or pending, with between 1 and
\* maxBatchSize - 1 buffered hostnames and a timer entry.
IdleTarget(tg) == tg \notin DOMAIN pending /\ tg \notin DOMAIN timers

PendingTarget(tg) ==
    /\ tg \in DOMAIN pending
    /\ Len(pending[tg]) \in 1..(maxBatchSize - 1)
    /\ tg \in DOMAIN timers

C24_IdleOrPending ==
    mu = Free => \A tg \in Targets : IdleTarget(tg) \/ PendingTarget(tg)

\* the lock is free, one target is idle and the other is pending again
\* after a size-triggered flush, with the flush of the timer that had fired
\* before it still waiting for the lock
C24_Witness ==
    /\ mu = Free
    /\ \E tg \in Targets : IdleTarget(tg)
    /\ \E x \in 1..Len(timerState) :
          /\ SizeFlushed(x)
          /\ timerState[x].st = "fired"
          /\ PendingTarget(timerState[x].target)
          /\ timers[timerState[x].target] # x

(***************************************************************************)
(* notificationBuffer.send, sendDiscord and sendToTelegram (send.go).      *)
(* A response is its HTTP status; 0 stands for http.Post returning an      *)
(* error.                                                                  *)
(***************************************************************************)
Sinks == {"discord", "telegram"}

Responses == {0, 200, 204, 429, 500}

\* the batches send is called with
Batches == {<<"t1", <<1>>>>, <<"t2", <<1, 2>>>>}

\* buildDiscordPayload: the embed's title and its description
buildDiscordPayload(target, ds) ==
    [embeds |-> <<[title |-> <<target, Len(ds)>>, description |-> ds]>>]

\* buildTelegramMessage, in the payload of sendToTelegram
buildTelegramMessage(target, ds) ==
    [text |-> <<target, Len(ds), ds>>, parse_mode |-> "Markdown"]

Payload(s, b) ==
    IF s = "discord" THEN buildDiscordPayload(b[1], b[2])
    ELSE buildTelegramMessage(b[1], b[2])

\* case http.StatusOK, http.StatusNoContent / resp.StatusCode == http.StatusOK
Delivered(s, status) ==
    IF s = "discord" THEN status \in {200, 204} ELSE status = 200

\* case http.StatusTooManyRequests / resp.StatusCode == http.StatusTooManyRequests
RateLimitedOrRejected(status) == status \notin {0, 200, 204}

RateLimited(status) == status = 429

\* time.Sleep(rateLimitWait * time.Duration(attempt+1))
BackoffFlat(a) == rateLimitWait

Backoff(a) == rateLimitWait * (a + 1)

\* what follows the delivery to sink s in send
After(s) == IF s = "discord" THEN "telegram" ELSE "enum"

NoOutcome == [s \in Sinks |-> ""]

SendInit ==
    /\ notifyDiscord \in BOOLEAN
    /\ notifyTelegram \in BOOLEAN
    /\ enumEnabled \in BOOLEAN
    /\ newDomainsHook \in BOOLEAN
    /\ batch \in Batches
    /\ pc = "discord"
    /\ sink = ""
    /\ attempt = 0
    /\ jsonData = <<>>
    /\ clock = 0
    /\ posts = <<>>
    /\ outcome = NoOutcome
    /\ enumRuns = 0
    /\ hookPosts = 0

\* a run in which send is not called
SenderIdle ==
    /\ notifyDiscord = FALSE
    /\ notifyTelegram = FALSE
    /\ enumEnabled = FALSE
    /\ newDomainsHook = FALSE
    /\ batch = <<>>
    /\ pc = "done"
    /\ sink = ""
    /\ attempt = 0
    /\ jsonData = <<>>
    /\ clock = 0
    /\ posts = <<>>
    /\ outcome = NoOutcome
    /\ enumRuns = 0
    /\ hookPosts = 0

\* send.go:74-76 and 95-101: the payload is built once, before the loop
sendDiscord ==
    /\ UNCHANGED <<trackerVars, batcherVars, adminVars, callerVars, pipelineVars>>
    /\ pc = "discord"
    /\ IF notifyDiscord
       THEN /\ pc' = "post"
            /\ sink' = "discord"
            /\ attempt' = 0
            /\ jsonData' = Payload("discord", batch)
       ELSE /\ pc' = After("discord")
            /\ UNCHANGED <<sink, attempt, jsonData>>
    /\ UNCHANGED <<notifyDiscord, notifyTelegram, enumEnabled, newDomainsHook,
                   batch, clock, posts, outcome, enumRuns, hookPosts>>

\* send.go:78-80 and 148-167
sendToTelegram ==
    /\ UNCHANGED <<trackerVars, batcherVars, adminVars, callerVars, pipelineVars>>
    /\ pc = "telegram"
    /\ IF notifyTelegram
       THEN /\ pc' = "post"
            /\ sink' = "telegram"
            /\ attempt' = 0
            /\ jsonData' = Payload("telegram", batch)
       ELSE /\ pc' = After("telegram")
            /\ UNCHANGED <<sink, attempt, jsonData>>
    /\ UNCHANGED <<notifyDiscord, notifyTelegram, enumEnabled, newDomainsHook,
                   batch, clock, posts, outcome, enumRuns, hookPosts>>

\* one http.Post of the loop and the branch taken on its response
\* (send.go:104-141, 170-190)
HttpPost(status) ==
    /\ UNCHANGED <<trackerVars, batcherVars, adminVars, callerVars, pipelineVars>>
    /\ pc = "post"
    /\ posts' = Append(posts, [sink |-> sink, body |-> jsonData, at |-> clock,
                               status |-> status])
    /\ IF status = 0
       THEN /\ outcome' = [outcome EXCEPT ![sink] = "failed"]
            /\ pc' = After(sink)
            /\ UNCHANGED <<enumRuns, hookPosts>>
       ELSE IF Delivered(sink, status)
       THEN /\ outcome' = [outcome EXCEPT ![sink] = "delivered"]
            /\ pc' = After(sink)
            /\ hookPosts' = IF sink = "discord" /\ newDomainsHook
                            THEN hookPosts + Len(batch[2]) ELSE hookPosts
            /\ enumRuns' = IF sink = "discord" /\ enumEnabled
                           THEN enumRuns + 1 ELSE enumRuns
       ELSE IF RateLimited(status)
       THEN /\ pc' = "sleep"
            /\ UNCHANGED <<outcome, enumRuns, hookPosts>>
       ELSE /\ outcome' = [outcome EXCEPT ![sink] = "rejected"]
            /\ pc' = After(sink)
            /\ UNCHANGED <<enumRuns, hookPosts>>
    /\ UNCHANGED <<notifyDiscord, notifyTelegram, enumEnabled, newDomainsHook,
                   batch, sink, attempt, jsonData, clock>>

\* time.Sleep, continue, attempt++ and the loop test (send.go:135-136, 103, 144)
RateLimitSleep ==
    /\ UNCHANGED <<trackerVars, batcherVars, adminVars, callerVars, pipelineVars>>
    /\ pc = "sleep"
    /\ clock' = clock + Backoff(attempt)
    /\ attempt' = attempt + 1
    /\ IF attempt + 1 < maxRetries
       THEN /\ pc' = "post"
            /\ UNCHANGED outcome
       ELSE /\ pc' = After(sink)
            /\ outcome' = [outcome EXCEPT ![sink] = "gave up"]
    /\ UNCHANGED <<notifyDiscord, notifyTelegram, enumEnabled, newDomainsHook,
                   batch, sink, jsonData, posts, enumRuns, hookPosts>>

\* send.go:83-91: one triggerEnumeration goroutine for each domain
triggerEnumeration ==
    /\ UNCHANGED <<trackerVars, batcherVars, adminVars, callerVars, pipelineVars>>
    /\ pc = "enum"
    /\ enumRuns' = IF enumEnabled THEN enumRuns + 1 ELSE enumRuns
    /\ pc' = "done"
    /\ UNCHANGED <<notifyDiscord, notifyTelegram, enumEnabled, newDomainsHook,
                   batch, sink, attempt, jsonData, clock, posts, outcome,
                   hookPosts>>

SendNext ==
    \/ sendDiscord
    \/ sendToTelegram
    \/ \E status \in Responses : HttpPost(status)
    \/ RateLimitSleep
    \/ triggerEnumeration

(***************************************************************************)
(* Properties of the delivery loop                                         *)
(***************************************************************************)
\* the positions in posts of the attempts made for sink s
AttemptsOf(s) == {i \in 1..Len(posts) : posts[i].sink = s}

\* the number of attempts for sink s made before position i
Before(s, i) == Cardinality({j \in AttemptsOf(s) : j < i})

\* the attempt for sink s that came just before the one at position i
Previous(s, i) ==
    CHOOSE j \in AttemptsOf(s) : j < i /\ Before(s, j) = Before(s, i) - 1

\* C10: for each sink, the delivery of a batch makes at most maxRetries
\* attempts; an attempt other than the first follows a 429 response, by no
\* less than rateLimitWait times the number of attempts made before it;
\* every attempt carries the payload of the batch; and after the responses
\* 429, 429 and success the delivery has ended as delivered with the third
\* attempt.
C10_Retry ==
    \A s \in Sinks :
        /\ Cardinality(AttemptsOf(s)) <= maxRetries
        /\ \A i \in AttemptsOf(s) :
              /\ posts[i].body = Payload(s, batch)
              /\ Before(s, i) > 0 =>
                    /\ posts[Previous(s, i)].status = 429
                    /\ posts[i].at - posts[Previous(s, i)].at
                          >= rateLimitWait * Before(s, i)
              /\ (/\ Before(s, i) = 2
                  /\ Delivered(s, posts[i].status))
                 => /\ outcome[s] = "delivered"
                    /\ ~(pc \in {"post", "sleep"} /\ sink = s)
        /\ outcome[s] = "delivered" <=>
              \E i \in AttemptsOf(s) : Delivered(s, posts[i].status)

\* both sinks answered 429, 429 and then accepted the third attempt
C10_Witness ==
    /\ pc = "done"
    /\ \A s \in Sinks :
          /\ Cardinality(AttemptsOf(s)) = maxRetries
          /\ outcome[s] = "delivered"
          /\ \A i \in AttemptsOf(s) :
                Before(s, i) < 2 => posts[i].status = 429

\* the last attempt made for sink s
LastAttempt(s, i) == \A j \in AttemptsOf(s) : j <= i

\* the delivery to sink s has ended
Ended(s) == outcome[s] # "" /\ ~(pc \in {"post", "sleep"} /\ sink = s)

\* C11: for each sink, an attempt that ends in a transport failure, in a
\* status that is neither success nor 429, or in success is the last attempt
\* for the batch; after maxRetries attempts answered 429 the delivery has
\* ended too; an ended delivery is never taken up again, and no sink accepts
\* the batch more than once.
C11_NoResend ==
    \A s \in Sinks :
        /\ \A i \in AttemptsOf(s) :
              posts[i].status # 429 =>
                 /\ LastAttempt(s, i)
                 /\ Ended(s)
                 /\ outcome[s] = IF posts[i].status = 0 THEN "failed"
                                 ELSE IF Delivered(s, posts[i].status)
                                 THEN "delivered" ELSE "rejected"
        /\ outcome[s] = "gave up" <=>
              /\ Cardinality(AttemptsOf(s)) = maxRetries
              /\ \A i \in AttemptsOf(s) : posts[i].status = 429
              /\ Ended(s)
        /\ Cardinality({i \in AttemptsOf(s) : Delivered(s, posts[i].status)}) <= 1
        /\ (outcome[s] # "" /\ s = "discord") => pc # "discord"
        /\ (outcome[s] # "" /\ s = "telegram") => pc \notin {"discord", "telegram"}

\* Discord gave up after three 429s, Telegram rejected the batch with a 204
\* after one 429, and send has returned
C11_Witness ==
    /\ pc = "done"
    /\ outcome["discord"] = "gave up"
    /\ outcome["telegram"] = "rejected"
    /\ Cardinality(AttemptsOf("telegram")) = 2
    /\ \E i \in AttemptsOf("telegram") : posts[i].status = 204

\* C26: enumeration for the hostnames of a batch is started only after the
\* batch has been delivered to a sink; when every attempt fails, or no sink
\* is enabled, none is started.
C26_EnumAfterDelivery ==
    enumRuns > 0 => \E s \in Sinks : outcome[s] = "delivered"

\* C38: for the batch of a send, triggerEnumeration is started at most once
\* for each hostname, whichever sinks are enabled and however their
\* deliveries end.
C38_EnumOncePerBatch == enumRuns <= 1

(***************************************************************************)
(* Risk scoring: the tracker started from tables whose entries sit at the  *)
(* thresholds of the scoring rule, and given wildcard names and probes     *)
(* with three status codes.                                                *)
(***************************************************************************)
DuplicateHits == 100      \* entry.HitCount > 100
FrequentHits  == 50       \* entry.HitCount > 50

RiskHosts == { <<"a">>, <<"*", ".", "A">> }

\* (statusCode, responseSize, lineCount, wordCount) of a probe
RiskProbes == { <<200, 600, 10, 20>>, <<404, 2000000, 10, 20>>, <<500, 50, 1, 2>> }

\* the table after the issuer of h has changed once and h has been probed twice
Probed(tbl, h) ==
    RecordMetadataStep(
        RecordMetadataStep(
            RecordIssuerStep(RecordIssuerStep(tbl, h, "LE"), h, "ZS"),
            h, <<200, 600, 10, 20>>),
        h, <<404, 2000000, 10, 20>>)

RiskStarts ==
    LET seen == { Sightings(EmptyMap, h, 0, n) :
                     h \in RiskHosts, n \in {1, FrequentHits, DuplicateHits} }
    IN  seen \cup { Probed(tbl, h) : tbl \in seen, h \in RiskHosts }

RiskInit ==
    /\ domains \in RiskStarts
    /\ disk = domains
    /\ now = 0
    /\ lastTrue = [d \in DOMAIN domains |-> <<domains[d].lastNotified, "first">>]
    /\ autoBlack = {}
    /\ nCalls = 0
    /\ nAdvances = 0
    /\ last = NoCall
    /\ shortSwept = {}
    /\ fresh = <<>>

RiskNext ==
    \/ \E h \in RiskHosts : ShouldNotifyDomain(h)
    \/ \E h \in RiskHosts, i \in Issuers : RecordDomainIssuer(h, i)
    \/ \E h \in RiskHosts, p \in RiskProbes : RecordDomainMetadata(h, p)

\* C12: every entry has a riskScore from 0 to 100, and so has the entry
\* calculateRisk leaves; calculateRisk applied to the entry it has left
\* changes neither riskScore nor riskLabels nor isDuplicate.
C12_RiskBounded ==
    \A d \in DOMAIN domains :
        LET once  == calculateRisk(domains[d])
            twice == calculateRisk(once)
        IN  /\ domains[d].riskScore \in 0..100
            /\ once.riskScore \in 0..100
            /\ twice.riskScore = once.riskScore
            /\ twice.riskLabels = once.riskLabels
            /\ twice.isDuplicate = once.isDuplicate

\* an entry to which all five rules apply: it scores 100 and is a duplicate
C12_Witness ==
    \E d \in DOMAIN domains :
        /\ domains[d].riskScore = 100
        /\ Len(domains[d].riskLabels) = 5
        /\ domains[d].isDuplicate
        /\ last.op = "RecordDomainMetadata"

\* C13: after every tracker operation, the riskScore of each entry is the
\* score the scoring rule gives for the fields the entry has now.
C13_ScoreCurrent ==
    last.op # "none" =>
        \A d \in DOMAIN domains :
            domains[d].riskScore = calculateRisk(domains[d]).riskScore

\* C14: when ShouldNotifyDomain (on any branch), ForceNotifyDomain or
\* RecordDomainResolution has returned, the table last written by save is
\* the table in memory.
C14_Persisted ==
    last.op \in {"ShouldNotifyDomain", "ForceNotifyDomain", "RecordDomainResolution"}
        => disk = domains

(***************************************************************************)
(* load and save: the table as encoding/json writes and reads it.  An      *)
(* entry becomes an object keyed by the json tags of DomainEntry, a time   *)
(* becomes its RFC 3339 text (date and time of day), the table an object   *)
(* keyed by hostname.                                                      *)
(***************************************************************************)
\* time.Time.MarshalJSON
MarshalTime(t) == <<DateOf(t), IF t = ZeroTime THEN 0 ELSE t % TicksPerDay>>

\* time.Time.UnmarshalJSON
UnmarshalTime(x) ==
    IF x[1] = ZeroDate THEN ZeroTime ELSE x[1] * TicksPerDay + x[2]

\* an encoder that writes the current issuer under the tag previous_issuer
MarshalEntryTagClash(e) ==
    [ domain |-> e.domain, hit_count |-> e.hitCount,
      first_seen |-> MarshalTime(e.firstSeen),
      last_seen |-> MarshalTime(e.lastSeen),
      last_notified |-> MarshalTime(e.lastNotified),
      resolved |-> e.resolved, blacklisted |-> e.blacklisted,
      blacklisted_date |-> MarshalTime(e.blacklistedDate),
      daily_hits |-> e.dailyHits,
      high_hit_days_consecutive |-> e.highHitDays,
      last_high_hit_date |-> e.lastHighHitDate,
      http_status_code |-> e.httpStatusCode, response_size |-> e.responseSize,
      response_line_count |-> e.responseLineCount,
      response_word_count |-> e.responseWordCount,
      risk_labels |-> e.riskLabels, risk_score |-> e.riskScore,
      cert_issuer |-> e.certIssuer, previous_issuer |-> e.certIssuer,
      status_code_history |-> e.statusCodeHistory,
      is_duplicate |-> e.isDuplicate ]

\* json.Marshal of a DomainEntry (tracking.go:20-43)
MarshalEntry(e) ==
    [ domain |-> e.domain, hit_count |-> e.hitCount,
      first_seen |-> MarshalTime(e.firstSeen),
      last_seen |-> MarshalTime(e.lastSeen),
      last_notified |-> MarshalTime(e.lastNotified),
      resolved |-> e.resolved, blacklisted |-> e.blacklisted,
      blacklisted_date |-> MarshalTime(e.blacklistedDate),
      daily_hits |-> e.dailyHits,
      high_hit_days_consecutive |-> e.highHitDays,
      last_high_hit_date |-> e.lastHighHitDate,
      http_status_code |-> e.httpStatusCode, response_size |-> e.responseSize,
      response_line_count |-> e.responseLineCount,
      response_word_count |-> e.responseWordCount,
      risk_labels |-> e.riskLabels, risk_score |-> e.riskScore,
      cert_issuer |-> e.certIssuer, previous_issuer |-> e.previousIssuer,
      status_code_history |-> e.statusCodeHistory,
      is_duplicate |-> e.isDuplicate ]

\* json.Unmarshal into a DomainEntry
UnmarshalEntry(o) ==
    [ domain |-> o.domain, hitCount |-> o.hit_count,
      firstSeen |-> UnmarshalTime(o.first_seen),
      lastSeen |-> UnmarshalTime(o.last_seen),
      lastNotified |-> UnmarshalTime(o.last_notified),
      resolved |-> o.resolved, blacklisted |-> o.blacklisted,
      blacklistedDate |-> UnmarshalTime(o.blacklisted_date),
      dailyHits |-> o.daily_hits,
      highHitDays |-> o.high_hit_days_consecutive,
      lastHighHitDate |-> o.last_high_hit_date,
      httpStatusCode |-> o.http_status_code, responseSize |-> o.response_size,
      responseLineCount |-> o.response_line_count,
      responseWordCount |-> o.response_word_count,
      riskLabels |-> o.risk_labels, riskScore |-> o.risk_score,
      certIssuer |-> o.cert_issuer, previousIssuer |-> o.previous_issuer,
      statusCodeHistory |-> o.status_code_history,
      isDuplicate |-> o.is_duplicate ]

\* json.Marshal(dt.domains) in save
jsonMarshal(tbl) == [d \in DOMAIN tbl |-> MarshalEntry(tbl[d])]

\* json.Unmarshal(data, &dt.domains) in load, into an empty table
jsonUnmarshal(data) == [d \in DOMAIN data |-> UnmarshalEntry(data[d])]

\* C16: the table that load reads from what save has written for a table
\* has the same hostnames and, for each of them, an entry with the same
\* value in every field.
C16_RoundTrip ==
    /\ DOMAIN jsonUnmarshal(jsonMarshal(domains)) = DOMAIN domains
    /\ \A d \in DOMAIN domains :
          jsonUnmarshal(jsonMarshal(domains))[d] = domains[d]
    /\ jsonUnmarshal(jsonMarshal(disk)) = disk

\* a table with an entry that has been hit, probed and labelled and whose
\* firstSeen and lastSeen differ, and another entry never notified
C16_Witness ==
    /\ \E d \in DOMAIN domains :
          /\ domains[d].riskLabels # <<>>
          /\ domains[d].statusCodeHistory # <<>>
          /\ domains[d].dailyHits # EmptyMap
          /\ domains[d].previousIssuer # ""
          /\ domains[d].isDuplicate
    /\ last.op # "none"

(***************************************************************************)
(* Metadata, issuer, sweep and the high-risk list: the tracker started     *)
(* from tables whose entry has been probed up to HistoryCap times, with    *)
(* one hit or with more than DuplicateHits.                                *)
(***************************************************************************)
RECURSIVE ProbedTimes(_, _, _)
\* the table after k probes of h, the i-th with status code 200 + i
ProbedTimes(tbl, h, k) ==
    IF k = 0 THEN tbl
    ELSE RecordMetadataStep(ProbedTimes(tbl, h, k - 1), h, <<200 + k, 600, 10, 20>>)

\* the entry of EdgeTable after the hit that blacklists it
BlackTable ==
    ShouldNotifyStep(EdgeTable, <<"a">>, (BlacklistDays - 1) * OneDay + 1).tbl

RecordStarts ==
    { [tbl |-> EmptyMap, at |-> 0],
      [tbl |-> BlackTable, at |-> (BlacklistDays - 1) * OneDay + 1] } \cup
    { [tbl |-> ProbedTimes(Sightings(EmptyMap, <<"a">>, 0, 1), <<"a">>, k),
       at  |-> 0] : k \in {0, HistoryCap - 1, HistoryCap} } \cup
    { [tbl |-> Sightings(EmptyMap, <<"a">>, 0, DuplicateHits + 1), at |-> 0] }

RecordInit ==
    /\ \E st \in RecordStarts :
          /\ domains = st.tbl
          /\ now = st.at
    /\ disk = domains
    /\ lastTrue = [d \in DOMAIN domains |-> <<domains[d].lastNotified, "first">>]
    /\ autoBlack = { d \in DOMAIN domains : domains[d].blacklisted }
    /\ nCalls = 0
    /\ nAdvances = 0
    /\ last = NoCall
    /\ shortSwept = {}
    /\ fresh = <<>>
    /\ held = EmptyMap
    /\ calls = {}

\* maxAge of a sweep: the 30 days of main.go:169
RecordMaxAges == { Retention }

\* between two calls the clock moves by maxAge, or by one tick more
RecordAdvances == { Retention, Retention + 1 }

\* minScore of GetHighRiskDomains
MinScores == { 0, 25 }

\* ClearOldEntries as its caller sees it: the argument and the returned count
ClearOldEntriesReturn(maxAge) ==
    /\ UNCHANGED <<batcherVars, senderVars, adminVars, callerVars, pipelineVars>>
    /\ LET gone == Stale(domains, maxAge, now)
           tbl  == ClearStep(domains, maxAge, now)
       IN  /\ domains' = tbl
           /\ disk' = IF Cardinality(gone) > 0 THEN tbl ELSE disk
           /\ shortSwept' = IF maxAge < Cooldown THEN shortSwept \cup gone
                            ELSE shortSwept
           /\ last' = [NoCall EXCEPT !.op = "ClearOldEntries", !.t = now,
                                     !.arg = <<maxAge>>, !.n = Cardinality(gone)]
    /\ nCalls < MaxCalls
    /\ nCalls' = nCalls + 1
    /\ fresh' = <<>>
    /\ UNCHANGED <<now, nAdvances, lastTrue, autoBlack>>

\* a high-risk list that leaves the duplicates in
HighRiskWithDuplicates(tbl, minScore) ==
    { d \in DOMAIN tbl : tbl[d].riskScore >= minScore /\ ~tbl[d].blacklisted }

\* the hostnames of the entries GetHighRiskDomains copies (tracking.go:475-480)
HighRisk(tbl, minScore) ==
    { d \in DOMAIN tbl : /\ tbl[d].riskScore >= minScore
                         /\ ~tbl[d].isDuplicate
                         /\ ~tbl[d].blacklisted }

GetHighRiskDomains(minScore) ==
    /\ UNCHANGED <<batcherVars, senderVars, adminVars, pipelineVars>>
    /\ nCalls < MaxCalls
    /\ held' = [d \in HighRisk(domains, minScore) |-> domains[d]]
    /\ last' = [NoCall EXCEPT !.op = "GetHighRiskDomains", !.t = now,
                              !.arg = <<minScore>>]
    /\ nCalls' = nCalls + 1
    /\ UNCHANGED <<domains, disk, now, nAdvances, lastTrue, autoBlack,
                   shortSwept, fresh, calls>>

\* (statusCode, responseSize, lineCount, wordCount) of a probe: a response
\* below and one above the 500 bytes of the duplicate test
RecordProbes == { <<404, 600, 10, 20>>, <<500, 50, 1, 2>> }

RecordNext ==
    \/ \E h \in RiskHosts : ShouldNotifyDomain(h)
    \/ \E h \in RiskHosts, p \in RecordProbes : RecordDomainMetadata(h, p)
    \/ \E h \in RiskHosts, i \in Issuers : RecordDomainIssuer(h, i)
    \/ \E a \in RecordMaxAges : ClearOldEntriesReturn(a)
    \/ \E m \in MinScores : GetHighRiskDomains(m)
    \/ \E by \in RecordAdvances : Advance(by)

MetadataCall == nCalls' = nCalls + 1 /\ last'.op = "RecordDomainMetadata"

\* C31: RecordDomainMetadata on a known hostname appends the status code
\* to statusCodeHistory, keeps the HistoryCap most recent codes in arrival
\* order and overwrites the four scalar metadata fields; on an unknown
\* hostname it leaves the table as it is; no history is ever longer than
\* HistoryCap.
C31_Metadata ==
    /\ [](\A d \in DOMAIN domains :
            Len(domains[d].statusCodeHistory) <= HistoryCap)
    /\ [][MetadataCall =>
            LET d == last'.key
                p == last'.arg
            IN  IF d \in DOMAIN domains
                THEN LET old == domains[d].statusCodeHistory
                         e2  == domains'[d]
                     IN  /\ DOMAIN domains' = DOMAIN domains
                         /\ e2.statusCodeHistory =
                               IF Len(old) < HistoryCap THEN Append(old, p[1])
                               ELSE Append(Tail(old), p[1])
                         /\ e2.httpStatusCode = p[1]
                         /\ e2.responseSize = p[2]
                         /\ e2.responseLineCount = p[3]
                         /\ e2.responseWordCount = p[4]
                         /\ \A x \in DOMAIN domains \ {d} :
                               domains'[x] = domains[x]
                ELSE domains' = domains]_vars

\* a probe of an entry with a full history has dropped the oldest code and
\* put its own at the end
C31_Witness ==
    /\ last.op = "RecordDomainMetadata"
    /\ last.known
    /\ LET e == domains[last.key] IN
          /\ Len(e.statusCodeHistory) = HistoryCap
          /\ e.statusCodeHistory[1] = 202
          /\ e.statusCodeHistory[HistoryCap] = last.arg[1]
          /\ e.responseSize = last.arg[2]

IssuerCall == nCalls' = nCalls + 1 /\ last'.op = "RecordDomainIssuer"

HasLabel(e, label) == \E i \in 1..Len(e.riskLabels) : e.riskLabels[i] = label

\* C32: RecordDomainIssuer(H, I) on a known entry whose certIssuer is
\* non-empty and differs from I puts the old certIssuer in previousIssuer
\* and adds the label issuer-change; for every known entry certIssuer
\* becomes I; an unknown hostname changes nothing.  So an entry carries the
\* label issuer-change exactly when its previousIssuer is non-empty.
C32_IssuerChange ==
    /\ [](\A d \in DOMAIN domains :
            HasLabel(domains[d], "issuer-change")
               <=> domains[d].previousIssuer # "")
    /\ [][IssuerCall =>
            LET d == last'.key
                i == last'.arg[1]
            IN  IF d \in DOMAIN domains
                THEN /\ DOMAIN domains' = DOMAIN domains
                     /\ domains'[d].certIssuer = i
                     /\ IF domains[d].certIssuer # "" /\ domains[d].certIssuer # i
                        THEN /\ domains'[d].previousIssuer = domains[d].certIssuer
                             /\ HasLabel(domains'[d], "issuer-change")
                        ELSE /\ domains'[d].previousIssuer = domains[d].previousIssuer
                             /\ HasLabel(domains'[d], "issuer-change")
                                   <=> HasLabel(domains[d], "issuer-change")
                ELSE domains' = domains]_vars

\* the issuer of a known entry has just changed from LE to ZS
C32_Witness ==
    /\ last.op = "RecordDomainIssuer"
    /\ last.known
    /\ last.arg = <<"ZS">>
    /\ domains[last.key].certIssuer = "ZS"
    /\ domains[last.key].previousIssuer = "LE"
    /\ HasLabel(domains[last.key], "issuer-change")

SweepCall == nCalls' = nCalls + 1 /\ last'.op = "ClearOldEntries"

\* C33: ClearOldEntries(maxAge) removes exactly the entries with
\* now - lastSeen > maxAge, leaves every other entry as it is, returns the
\* number removed, and writes the table to disk only when that number is
\* greater than zero.
C33_Sweep ==
    [][SweepCall =>
         LET maxAge == last'.arg[1]
             old    == { d \in DOMAIN domains : now - domains[d].lastSeen > maxAge }
         IN  /\ DOMAIN domains' = DOMAIN domains \ old
             /\ \A d \in DOMAIN domains' : domains'[d] = domains[d]
             /\ last'.n = Cardinality(old)
             /\ disk' = IF Cardinality(old) > 0 THEN domains' ELSE disk]_vars

\* a sweep has removed one entry and kept another, and has saved
C33_Witness ==
    /\ last.op = "ClearOldEntries"
    /\ last.n = 1
    /\ Cardinality(DOMAIN domains) = 1
    /\ disk = domains
    /\ \A d \in DOMAIN domains : now - domains[d].lastSeen <= last.arg[1]

\* C34: once isDuplicate of an entry is true no tracker operation sets it
\* back to false, and GetHighRiskDomains(minScore) returns copies of
\* exactly the entries with riskScore >= minScore that are neither
\* isDuplicate nor blacklisted.
C34_DuplicatesStay ==
    /\ [][\A d \in DOMAIN domains \cap DOMAIN domains' :
            domains[d].isDuplicate => domains'[d].isDuplicate]_vars
    /\ [](last.op = "GetHighRiskDomains" =>
            /\ DOMAIN held =
                  { d \in DOMAIN domains : /\ domains[d].riskScore >= last.arg[1]
                                           /\ ~domains[d].isDuplicate
                                           /\ ~domains[d].blacklisted }
            /\ \A d \in DOMAIN held : held[d] = domains[d])

\* an entry marked as duplicate has since been probed with a response of
\* 500 bytes or more, is still marked, and is left out of the list it
\* would be in by its score
C34_Witness ==
    /\ last.op = "GetHighRiskDomains"
    /\ \E d \in DOMAIN domains :
          /\ domains[d].isDuplicate
          /\ domains[d].responseSize >= 500
          /\ domains[d].riskScore >= last.arg[1]
          /\ ~domains[d].blacklisted
          /\ d \notin DOMAIN held

(***************************************************************************)
(* The tracker beside the admin panel.  A tracker operation holds dt.mu    *)
(* from its first statement to the return of save; the blacklist handlers  *)
(* of the admin panel read through GetAllDomains and then store and save   *)
(* on their own.  save is taken apart into its system calls, and the file  *)
(* system into files (inodes) and the two paths that name them.            *)
(***************************************************************************)
Savers == {"op", "admin"}

AdminHosts == { <<"a">> }

\* a file just created or truncated by os.WriteFile, nothing written yet
Truncated == [complete |-> FALSE, data |-> <<>>]

Written(data) == [complete |-> TRUE, data |-> data]

SaverIdle == [pc |-> "idle", data |-> <<>>, fd |-> 0]

AdminAtRest == [pc |-> "idle", key |-> <<>>, entry |-> ZeroEntry(<<>>)]

AdminIdle ==
    /\ dtMu = ""
    /\ savers = [w \in Savers |-> SaverIdle]
    /\ admin = AdminAtRest
    /\ inodes = <<>> /\ tmpPath = 0 /\ finalPath = 0
    /\ existed = {}

\* the tracker loaded from the file a previous run has left, or from none
AdminInit ==
    /\ TrackerInit
    /\ dtMu = ""
    /\ savers = [w \in Savers |-> SaverIdle]
    /\ admin = AdminAtRest
    /\ inodes = IF domains = EmptyMap THEN <<>>
                ELSE <<Written(jsonMarshal(domains))>>
    /\ finalPath = IF domains = EmptyMap THEN 0 ELSE 1
    /\ tmpPath = 0
    /\ existed = {domains}

\* ShouldNotifyDomain from dt.mu.Lock() to the call of save; a branch that
\* does not save returns and unlocks at once
ShouldNotifyLocked(h) ==
    /\ UNCHANGED <<batcherVars, senderVars, callerVars, pipelineVars>>
    /\ nCalls < MaxCalls
    /\ dtMu = ""
    /\ savers["op"].pc = "idle"
    /\ LET d == Normalize(h)
           r == ShouldNotifyStep(domains, h, now)
       IN  /\ domains' = r.tbl
           /\ existed' = existed \cup {r.tbl}
           /\ last' = [Call("ShouldNotifyDomain", d) EXCEPT !.ret = r.ret,
                                                           !.branch = r.branch]
           /\ lastTrue' = IF r.ret THEN Put(lastTrue, d, <<now, r.branch>>)
                           ELSE lastTrue
           /\ shortSwept' = IF r.ret THEN shortSwept \ {d} ELSE shortSwept
           /\ autoBlack' = autoBlack \cup NewlyBlack(domains, r.tbl)
           /\ fresh' = IF r.branch = "first" THEN <<d, now>> ELSE <<>>
           /\ dtMu' = IF r.saved THEN "op" ELSE ""
           /\ savers' = IF r.saved
                          THEN [savers EXCEPT !["op"].pc = "marshal"]
                          ELSE savers
    /\ nCalls' = nCalls + 1
    /\ UNCHANGED <<disk, now, nAdvances, admin, inodes, tmpPath, finalPath>>

\* what a handler has in hand after allDomains[req.Domain] and its change
\* of the copy; a hostname without an entry is answered with 404
AdminCopy(name, black) ==
    IF name \in DOMAIN domains
      THEN [pc |-> "store", key |-> name,
            entry |-> [domains[name] EXCEPT
                          !.blacklisted = black,
                          !.blacklistedDate = IF black THEN now ELSE ZeroTime]]
      ELSE AdminAtRest

AdminFrame ==
    /\ UNCHANGED <<batcherVars, senderVars, callerVars, pipelineVars>>
    /\ UNCHANGED <<domains, disk, now, nAdvances, lastTrue, autoBlack,
                   shortSwept, fresh, dtMu, savers, inodes, tmpPath,
                   finalPath, existed>>

\* addBlacklist up to its store: GetAllDomains under the shared lock, the
\* lookup and the change of the copy
addBlacklist(name) ==
    /\ AdminFrame
    /\ nCalls < MaxCalls
    /\ admin.pc = "idle"
    /\ dtMu = ""
    /\ admin' = AdminCopy(name, TRUE)
    /\ nCalls' = nCalls + 1
    /\ last' = [NoCall EXCEPT !.op = "addBlacklist", !.key = name, !.t = now]

\* removeBlacklist up to its store
removeBlacklist(name) ==
    /\ AdminFrame
    /\ nCalls < MaxCalls
    /\ admin.pc = "idle"
    /\ dtMu = ""
    /\ admin' = AdminCopy(name, FALSE)
    /\ nCalls' = nCalls + 1
    /\ last' = [NoCall EXCEPT !.op = "removeBlacklist", !.key = name, !.t = now]

\* dt.domains[req.Domain] = entry: the copy replaces the stored entry; its
\* dailyHits is the map of the entry it was copied from
AdminStore ==
    /\ UNCHANGED <<batcherVars, senderVars, callerVars, pipelineVars>>
    /\ admin.pc = "store"
    /\ LET stored == [admin.entry EXCEPT
                         !.dailyHits = IF admin.key \in DOMAIN domains
                                         THEN domains[admin.key].dailyHits
                                         ELSE @]
       IN  /\ domains' = Put(domains, admin.key, stored)
           /\ existed' = existed \cup {Put(domains, admin.key, stored)}
    /\ admin' = [admin EXCEPT !.pc = "save"]
    /\ savers' = [savers EXCEPT !["admin"].pc = "marshal"]
    /\ last' = [NoCall EXCEPT !.op = "AdminStore", !.key = admin.key, !.t = now]
    /\ UNCHANGED <<disk, now, nCalls, nAdvances, lastTrue, autoBlack,
                   shortSwept, fresh, dtMu, inodes, tmpPath, finalPath>>

SaveFrame ==
    /\ UNCHANGED <<batcherVars, senderVars, callerVars, pipelineVars>>
    /\ UNCHANGED <<domains, now, nCalls, nAdvances, last, lastTrue, autoBlack,
                   shortSwept, fresh, existed>>

\* data, err := json.Marshal(dt.domains)
SaveMarshal(w) ==
    /\ SaveFrame
    /\ savers[w].pc = "marshal"
    /\ savers' = [savers EXCEPT ![w].pc = "open",
                                ![w].data = jsonMarshal(domains)]
    /\ UNCHANGED <<disk, dtMu, admin, inodes, tmpPath, finalPath>>

\* os.WriteFile(tempPath, ...): open with O_CREATE and O_TRUNC
SaveOpen(w) ==
    /\ SaveFrame
    /\ savers[w].pc = "open"
    /\ IF tmpPath = 0
         THEN /\ inodes' = Append(inodes, Truncated)
              /\ tmpPath' = Len(inodes) + 1
         ELSE /\ inodes' = [inodes EXCEPT ![tmpPath] = Truncated]
              /\ tmpPath' = tmpPath
    /\ savers' = [savers EXCEPT ![w].pc = "write", ![w].fd = tmpPath']
    /\ UNCHANGED <<disk, dtMu, admin, finalPath>>

\* os.WriteFile(tempPath, ...): write to the open file and close it
SaveWrite(w) ==
    /\ SaveFrame
    /\ savers[w].pc = "write"
    /\ inodes' = [inodes EXCEPT ![savers[w].fd] = Written(savers[w].data)]
    /\ savers' = [savers EXCEPT ![w].pc = "rename"]
    /\ UNCHANGED <<disk, dtMu, admin, tmpPath, finalPath>>

\* the table load would read from the tracking file
Loadable(file) == IF file.complete THEN jsonUnmarshal(file.data) ELSE EmptyMap

\* os.Rename(tempPath, dt.filePath) and the return of save; the rename
\* fails when the temp path names no file
SaveRename(w) ==
    /\ SaveFrame
    /\ savers[w].pc = "rename"
    /\ IF tmpPath = 0
         THEN UNCHANGED <<finalPath, tmpPath, disk>>
         ELSE /\ finalPath' = tmpPath
              /\ tmpPath' = 0
              /\ disk' = Loadable(inodes[tmpPath])
    /\ savers' = [savers EXCEPT ![w] = SaverIdle]
    /\ dtMu' = IF w = "op" THEN "" ELSE dtMu
    /\ admin' = IF w = "admin" THEN AdminAtRest ELSE admin
    /\ UNCHANGED inodes

AdminNext ==
    \/ \E h \in Hosts : ShouldNotifyLocked(h)
    \/ \E name \in AdminHosts : addBlacklist(name)
    \/ \E name \in AdminHosts : removeBlacklist(name)
    \/ AdminStore
    \/ \E w \in Savers : SaveMarshal(w)
    \/ \E w \in Savers : SaveOpen(w)
    \/ \E w \in Savers : SaveWrite(w)
    \/ \E w \in Savers : SaveRename(w)

\* C15: at every instant the tracking file is absent or holds the complete
\* serialization of one table that existed in memory; a file that is
\* partially written or mixed is never at the final path.  Every state is
\* one a crash can leave behind.
C15_AtomicFile ==
    finalPath # 0 =>
        /\ inodes[finalPath].complete
        /\ \E t \in existed : inodes[finalPath].data = jsonMarshal(t)

\* C18: the hitCount of a hostname whose entry stays in the table never
\* decreases, whatever the tracker or the admin panel does.
C18_HitCountMonotone ==
    [][\A d \in DOMAIN domains :
          d \in DOMAIN domains' => domains'[d].hitCount >= domains[d].hitCount]_vars

\* C19: while an entry is blacklisted no tracker operation changes its
\* dailyHits, highHitDays or lastHighHitDate, and a ShouldNotifyDomain call
\* on it increments hitCount, sets lastSeen, changes nothing else and
\* returns false.
C19_BlacklistedFrozen ==
    [][\A d \in DOMAIN domains :
          (domains[d].blacklisted /\ d \in DOMAIN domains') =>
              /\ domains'[d].dailyHits = domains[d].dailyHits
              /\ domains'[d].highHitDays = domains[d].highHitDays
              /\ domains'[d].lastHighHitDate = domains[d].lastHighHitDate
              /\ (nCalls' = nCalls + 1 /\ last'.op = "ShouldNotifyDomain"
                      /\ last'.key = d) =>
                     /\ domains'[d] = [domains[d] EXCEPT !.hitCount = @ + 1,
                                                         !.lastSeen = now]
                     /\ ~last'.ret]_vars

\* C20: whoever writes the table or a stored entry, or is inside save, holds
\* dt.mu exclusively, so no two of them are active at once.
Writing(w) ==
    IF w = "admin" THEN admin.pc = "save" ELSE savers[w].pc # "idle"

C20_WritersLocked == \A w \in Savers : Writing(w) => dtMu = w

(***************************************************************************)
(* A caller of the getters.  Every getter returns, per entry, the address  *)
(* of copy := *entry: the scalar fields are the caller's own, while the    *)
(* dailyHits map and the arrays under riskLabels and statusCodeHistory are *)
(* those of the stored entry.  held keeps the copies the caller has got;   *)
(* what a copy shares is read and written in the table's entry.            *)
(***************************************************************************)
CallerIdle == held = EmptyMap /\ calls = {}

CallerInit == RiskInit /\ held = EmptyMap /\ calls = {}

CallerFrame ==
    /\ UNCHANGED <<batcherVars, senderVars, adminVars, pipelineVars>>
    /\ UNCHANGED calls
    /\ UNCHANGED <<disk, now, nAdvances, lastTrue, autoBlack, shortSwept, fresh>>

GetDomainInfo(h) ==
    /\ CallerFrame
    /\ nCalls < MaxCalls
    /\ held' = IF Normalize(h) \in DOMAIN domains
                 THEN Put(held, Normalize(h), domains[Normalize(h)])
                 ELSE held
    /\ last' = [NoCall EXCEPT !.op = "GetDomainInfo", !.key = Normalize(h),
                              !.t = now]
    /\ nCalls' = nCalls + 1
    /\ UNCHANGED domains

GetAllDomains ==
    /\ CallerFrame
    /\ nCalls < MaxCalls
    /\ held' = domains
    /\ last' = [NoCall EXCEPT !.op = "GetAllDomains", !.t = now]
    /\ nCalls' = nCalls + 1
    /\ UNCHANGED domains

CallerWrote(d) == [NoCall EXCEPT !.op = "CallerWrite", !.key = d, !.t = now]

\* copy.HitCount = 0
CallerSetHitCount(d) ==
    /\ CallerFrame
    /\ d \in DOMAIN held
    /\ held' = [held EXCEPT ![d].hitCount = 0]
    /\ last' = CallerWrote(d)
    /\ UNCHANGED <<domains, nCalls>>

\* copy.DailyHits[today] = 0
CallerSetDailyHits(d) ==
    /\ CallerFrame
    /\ d \in DOMAIN held /\ d \in DOMAIN domains
    /\ domains' = [domains EXCEPT ![d].dailyHits = Put(@, DateOf(now), 0)]
    /\ held' = [held EXCEPT ![d].dailyHits = Put(domains[d].dailyHits, DateOf(now), 0)]
    /\ last' = CallerWrote(d)
    /\ UNCHANGED nCalls

\* copy.RiskLabels[0] = "caller"
CallerSetRiskLabel(d) ==
    /\ CallerFrame
    /\ d \in DOMAIN held /\ d \in DOMAIN domains
    /\ held[d].riskLabels # <<>> /\ domains[d].riskLabels # <<>>
    /\ domains' = [domains EXCEPT ![d].riskLabels[1] = "caller"]
    /\ held' = [held EXCEPT ![d].riskLabels[1] = "caller"]
    /\ last' = CallerWrote(d)
    /\ UNCHANGED nCalls

\* copy.StatusCodeHistory[0] = 0
CallerSetStatusCode(d) ==
    /\ CallerFrame
    /\ d \in DOMAIN held /\ d \in DOMAIN domains
    /\ held[d].statusCodeHistory # <<>> /\ domains[d].statusCodeHistory # <<>>
    /\ domains' = [domains EXCEPT ![d].statusCodeHistory[1] = 0]
    /\ held' = [held EXCEPT ![d].statusCodeHistory[1] = 0]
    /\ last' = CallerWrote(d)
    /\ UNCHANGED nCalls

CallerKeys == { Normalize(h) : h \in RiskHosts }

CallerNext ==
    \/ \E h \in RiskHosts : ShouldNotifyDomain(h)
    \/ \E h \in RiskHosts : GetDomainInfo(h)
    \/ GetAllDomains
    \/ \E d \in CallerKeys : CallerSetHitCount(d)
    \/ \E d \in CallerKeys : CallerSetDailyHits(d)
    \/ \E d \in CallerKeys : CallerSetRiskLabel(d)
    \/ \E d \in CallerKeys : CallerSetStatusCode(d)

\* C17: nothing a caller does to a value a getter returned, its dailyHits,
\* riskLabels and statusCodeHistory included, alters an entry of the table.
C17_CopiesDetached == [][last'.op = "CallerWrite" => domains' = domains]_vars

(***************************************************************************)
(* From certificate to notification: processEntry (main.go) asks the       *)
(* tracker, resolves the name and hands it to the batcher; the batcher's   *)
(* batches are dispatched by send, and send starts the enumeration whose   *)
(* result comes back to the tracker as RecordDomainMetadata.  The clock    *)
(* moves and the daily sweep of main.go:163-171 runs in between.           *)
(***************************************************************************)
\* entry.Issuer of a certificate that names its issuer
EntryIssuers == {"LE"}

\* the target a hostname matched in processEntry
MatchedTargets == {"t1"}

\* entry.Domains: a name as certificates spell it
EntryHosts == { <<"A", ".">> }

\* what an enumeration records
EnumProbes == { <<200, 50, 1, 2>> }

\* how far the clock moves between two certificates
EntryAdvances == { Cooldown - 1, Retention + 1 }

\* the responses of a sink in a whole run
SinkResponses == {200, 429}

\* notifyDiscord, notifyTelegram, enumConfig.EnableEnum and the new-domains
\* webhook as main.go configures them
Configs ==
    { [discord |-> TRUE,  telegram |-> FALSE, enum |-> TRUE,  hook |-> TRUE],
      [discord |-> FALSE, telegram |-> FALSE, enum |-> TRUE,  hook |-> FALSE] }

\* no ResolveDomain call has been made
NoResolve == [host |-> <<>>, key |-> <<>>, outcome |-> "", ret |-> FALSE,
              cached |-> FALSE]

ResolverIdle ==
    /\ resolveCache = EmptyMap
    /\ rclock = 0
    /\ lookups = 0
    /\ lastResolve = NoResolve
    /\ nResolves = 0

\* the counters of a new StatsTracker
NoScans == [activeFeroxScans |-> 0, activePurednsScans |-> 0,
            completedScans |-> 0, failedScans |-> 0]

ScansIdle ==
    /\ stats = NoScans
    /\ scans = <<>>
    /\ nRuns = 0

PipelineIdle ==
    /\ handed = <<>>
    /\ dispatching = 0
    /\ log = <<>>
    /\ ResolverIdle
    /\ ScansIdle

PipelineInit ==
    /\ domains = EmptyMap /\ disk = EmptyMap /\ now = 0
    /\ nCalls = 0 /\ nAdvances = 0
    /\ last = NoCall /\ lastTrue = EmptyMap
    /\ autoBlack = {} /\ shortSwept = {} /\ fresh = <<>>
    /\ BatcherIdle
    /\ \E c \in Configs :
          /\ notifyDiscord = c.discord
          /\ notifyTelegram = c.telegram
          /\ enumEnabled = c.enum
          /\ newDomainsHook = c.hook
    /\ batch = <<>> /\ pc = "done" /\ sink = "" /\ attempt = 0
    /\ jsonData = <<>> /\ clock = 0 /\ posts = <<>> /\ outcome = NoOutcome
    /\ enumRuns = 0 /\ hookPosts = 0
    /\ PipelineIdle

\* a variant in which a hostname that does not resolve gives its
\* notification back: lastNotified is set to the zero time again
EntryStepGivesBack(tbl, h, issuer, resolves, t) ==
    LET r  == ShouldNotifyStep(tbl, h, t)
        d  == Normalize(h)
        t1 == IF issuer # "" THEN RecordIssuerStep(r.tbl, h, issuer) ELSE r.tbl
        t2 == IF r.ret THEN RecordResolutionStep(t1, h, resolves, t) ELSE t1
        t3 == IF r.ret /\ ~resolves
              THEN Put(t2, d, [t2[d] EXCEPT !.lastNotified = ZeroTime])
              ELSE t2
    IN  [tbl |-> t3, ret |-> r.ret, branch |-> r.branch,
         saved |-> r.saved \/ issuer # "" \/ r.ret]

\* the tracker's table after the calls processEntry makes for one hostname
\* (main.go:353-376): ShouldNotifyDomain, RecordDomainIssuer when the
\* certificate names an issuer, and RecordDomainResolution when the tracker
\* said yes
EntryStep(tbl, h, issuer, resolves, t) ==
    LET r  == ShouldNotifyStep(tbl, h, t)
        t1 == IF issuer # "" THEN RecordIssuerStep(r.tbl, h, issuer) ELSE r.tbl
        t2 == IF r.ret THEN RecordResolutionStep(t1, h, resolves, t) ELSE t1
    IN  [tbl |-> t2, ret |-> r.ret, branch |-> r.branch,
         saved |-> r.saved \/ issuer # "" \/ r.ret]

\* a variant that hands the hostname over whatever ResolveDomain said
HandsOverUnresolved(ret, resolves) == ret /\ (notifyDiscord \/ notifyTelegram)

\* if notifyDiscord || notifyTelegram { go sendToDiscord(domain, target) },
\* reached only past both tests
HandsOver(ret, resolves) == ret /\ resolves /\ (notifyDiscord \/ notifyTelegram)

\* how many hostnames processEntry hands over in a run
MaxHanded == MaxAdds - 1

\* processEntry for one hostname of a certificate that matches target tg
processEntry(h, issuer, resolves, tg) ==
    /\ UNCHANGED <<senderVars, adminVars, callerVars>>
    /\ nCalls < MaxCalls
    /\ HandsOver(EntryStep(domains, h, issuer, resolves, now).ret, resolves)
          => nAdds < MaxHanded
    /\ LET d == Normalize(h)
           r == EntryStep(domains, h, issuer, resolves, now)
       IN  /\ domains' = r.tbl
           /\ disk' = IF r.saved THEN r.tbl ELSE disk
           /\ last' = [Call("ShouldNotifyDomain", d) EXCEPT
                           !.ret = r.ret, !.branch = r.branch,
                           !.arg = IF r.ret THEN <<resolves>> ELSE <<>>]
           /\ lastTrue' = IF r.ret
                           THEN Put(lastTrue, d, <<now, r.branch, resolves>>)
                           ELSE lastTrue
           /\ shortSwept' = IF r.ret THEN shortSwept \ {d} ELSE shortSwept
           /\ autoBlack' = autoBlack \cup NewlyBlack(domains, r.tbl)
           /\ fresh' = IF r.branch = "first" THEN <<d, now>> ELSE <<>>
           /\ IF HandsOver(r.ret, resolves)
                THEN /\ nAdds' = nAdds + 1
                     /\ adds' = adds \cup {[id |-> nAdds + 1, target |-> tg,
                                            pc |-> "lock"]}
                     /\ passed' = passed \cup {nAdds + 1}
                     /\ handed' = Append(handed,
                                     [host |-> h, at |-> now, notify |-> r.ret,
                                      resolves |-> resolves])
                ELSE UNCHANGED <<nAdds, adds, passed, handed>>
    /\ nCalls' = nCalls + 1
    /\ justAdded' = <<>>
    /\ UNCHANGED <<now, nAdvances, pending, timers, mu, timerState, spawned,
                   sent, addOrder, detached, dispatching, log, resolverVars,
                   scanVars>>

\* the hostname add was called with: the one processEntry handed over, or,
\* where only the batcher is looked at, the number of the add call
NameOf(id) == IF id \in DOMAIN handed THEN handed[id].host ELSE id

\* the hostnames of the batch send was called with
HostsOf(ids) == [k \in 1..Len(ids) |-> NameOf(ids[k])]

\* a call of send starts: the goroutine of `go n.send`, or flush after its
\* unlock, is scheduled
Dispatch ==
    /\ UNCHANGED <<trackerVars, batcherVars, adminVars, callerVars>>
    /\ dispatching = 0
    /\ Len(log) < Len(sent)
    /\ dispatching' = Len(log) + 1
    /\ batch' = <<sent[Len(log) + 1][1], HostsOf(sent[Len(log) + 1][2])>>
    /\ pc' = "discord"
    /\ sink' = "" /\ attempt' = 0 /\ jsonData' = <<>> /\ clock' = 0
    /\ posts' = <<>> /\ outcome' = NoOutcome /\ enumRuns' = 0 /\ hookPosts' = 0
    /\ UNCHANGED <<notifyDiscord, notifyTelegram, enumEnabled, newDomainsHook,
                   handed, log, resolverVars, scanVars>>

\* send returns
SendReturn ==
    /\ UNCHANGED <<trackerVars, batcherVars, senderVars, adminVars, callerVars>>
    /\ dispatching # 0
    /\ pc = "done"
    /\ log' = Append(log, [ids |-> sent[dispatching][2], hosts |-> batch[2],
                           outcome |-> outcome, enumRuns |-> enumRuns])
    /\ dispatching' = 0
    /\ UNCHANGED <<handed, resolverVars, scanVars>>

\* the hostnames for which an enumeration has been started
Enumerated ==
    UNION { Range(log[i].hosts) : i \in {j \in 1..Len(log) : log[j].enumRuns > 0} }
      \cup (IF dispatching # 0 /\ enumRuns > 0 THEN Range(batch[2]) ELSE {})

\* an enumeration ends and records what it found (part_006:245)
EnumerationResult(h, p) ==
    /\ h \in Enumerated
    /\ RecordDomainMetadata(h, p)

\* days pass between two certificates: batchDelay (5 s) is long over, so no
\* add is under way, no timer is armed and no flush is in its critical
\* section; a send may still be waiting for its sink
DaysPass(by) ==
    /\ adds = {}
    /\ mu = Free
    /\ \A x \in 1..Len(timerState) : timerState[x].st \in {"stopped", "done"}
    /\ Advance(by)

PipelineNext ==
    \/ \E h \in EntryHosts, i \in EntryIssuers, r \in BOOLEAN,
          tg \in MatchedTargets :
          processEntry(h, i, r, tg)
    \/ \E c \in adds : AddLock(c)
    \/ \E c \in adds : AddBody(c)
    \/ \E x \in 1..Len(timerState) : TimerFire(x)
    \/ \E x \in 1..Len(timerState) : FlushLock(x)
    \/ \E x \in 1..Len(timerState) : FlushBody(x)
    \/ \E x \in 1..Len(timerState) : FlushSend(x)
    \/ Dispatch
    \/ sendDiscord
    \/ sendToTelegram
    \/ \E status \in SinkResponses : HttpPost(status)
    \/ RateLimitSleep
    \/ triggerEnumeration
    \/ SendReturn
    \/ \E h \in EntryHosts, p \in EnumProbes : EnumerationResult(h, p)
    \/ ClearOldEntries(Retention)
    \/ \E by \in EntryAdvances : DaysPass(by)

(***************************************************************************)
(* The batcher with the sends it starts: every batch handed to send is     *)
(* dispatched by the delivery loops while add calls and timers go on.      *)
(***************************************************************************)
DispatchInit ==
    /\ BatcherInit
    /\ notifyDiscord = TRUE /\ notifyTelegram = FALSE
    /\ enumEnabled = FALSE /\ newDomainsHook = FALSE
    /\ batch = <<>> /\ pc = "done" /\ sink = "" /\ attempt = 0
    /\ jsonData = <<>> /\ clock = 0 /\ posts = <<>> /\ outcome = NoOutcome
    /\ enumRuns = 0 /\ hookPosts = 0
    /\ PipelineIdle

DispatchNext ==
    \/ \E tg \in MatchedTargets : AddCall(tg)
    \/ \E c \in adds : AddLock(c)
    \/ \E c \in adds : AddBody(c)
    \/ \E b \in spawned : SendStart(b)
    \/ \E x \in 1..Len(timerState) : TimerFire(x)
    \/ \E x \in 1..Len(timerState) : FlushLock(x)
    \/ \E x \in 1..Len(timerState) : FlushBody(x)
    \/ \E x \in 1..Len(timerState) : FlushSend(x)
    \/ Dispatch
    \/ sendDiscord
    \/ sendToTelegram
    \/ \E status \in SinkResponses : HttpPost(status)
    \/ RateLimitSleep
    \/ triggerEnumeration
    \/ SendReturn

\* who holds n.mu is inside the critical section of add or of flush
InCriticalSection ==
    \/ /\ mu[1] = "add"
       /\ \E c \in adds : c.id = mu[2] /\ c.pc = "body"
    \/ /\ mu[1] = "flush"
       /\ timerState[mu[2]].st = "locked"

\* C22: no dispatch runs under the batcher lock: a flush has unlocked
\* before it calls send, the batch of a size-triggered flush is sent by a
\* goroutine of its own that add does not wait for, and whoever holds the
\* lock is in the critical section of add or flush, which makes no HTTP
\* attempt and does not sleep; so an add call that waits for the lock gets
\* it as soon as it is free, whatever a dispatch is doing.
C22_NoDispatchUnderLock ==
    /\ \A x \in 1..Len(timerState) :
          timerState[x].st = "sending" => mu # <<"flush", x>>
    /\ mu # Free => InCriticalSection
    /\ (justAdded # <<>> /\ Len(justAdded.before) + 1 = maxBatchSize) =>
          /\ mu = Free
          /\ <<justAdded.target, Append(justAdded.before, justAdded.item)>>
                \in spawned
    /\ \A c \in adds : (c.pc = "lock" /\ mu = Free) => ENABLED AddLock(c)

\* the dispatch of a full batch is waiting out a rate limit, and an add call
\* for the same target has just returned
C22_Witness ==
    /\ dispatching # 0
    /\ pc = "sleep"
    /\ Len(batch[2]) = maxBatchSize
    /\ justAdded # <<>>
    /\ justAdded.target = batch[1]
    /\ justAdded.item \notin Range(batch[2])

(***************************************************************************)
(* ShouldNotifyDomain called by several goroutines at one time for a       *)
(* hostname the table does not hold.  A call waits for dt.mu, reads the    *)
(* table, acts on what it has read, and unlocks as it returns.             *)
(***************************************************************************)
\* a lock that lets everyone in
MayLockAlways(holder) == TRUE

\* dt.mu.Lock() returns (tracking.go:86)
MayLock(holder) == holder = ""

ConcurrentInit ==
    /\ domains = EmptyMap /\ disk = EmptyMap /\ now = 0
    /\ lastTrue = EmptyMap /\ autoBlack = {}
    /\ nCalls = 0 /\ nAdvances = 0 /\ last = NoCall
    /\ shortSwept = {} /\ fresh = <<>>
    /\ dtMu = ""
    /\ savers = [w \in Savers |-> SaverIdle]
    /\ admin = AdminAtRest
    /\ inodes = <<>> /\ tmpPath = 0 /\ finalPath = 0
    /\ existed = {EmptyMap}
    /\ held = EmptyMap
    /\ calls = {}

ConcurrentFrame ==
    /\ UNCHANGED <<batcherVars, senderVars, pipelineVars>>
    /\ UNCHANGED <<savers, admin, inodes, tmpPath, finalPath, held>>

\* a goroutine calls ShouldNotifyDomain(h) and waits for dt.mu
ConcurrentCall(h) ==
    /\ ConcurrentFrame
    /\ nCalls < MaxCalls
    /\ nCalls' = nCalls + 1
    /\ calls' = calls \cup {[id |-> nCalls + 1, host |-> h, pc |-> "lock",
                             exists |-> FALSE, ret |-> FALSE,
                             beside |-> {c.id : c \in {x \in calls : x.pc # "returned"}}]}
    /\ UNCHANGED <<domains, disk, now, nAdvances, last, lastTrue, autoBlack,
                   shortSwept, fresh, dtMu, existed>>

\* dt.mu.Lock()
ConcurrentLock(c) ==
    /\ ConcurrentFrame
    /\ c.pc = "lock"
    /\ MayLock(dtMu)
    /\ dtMu' = "op"
    /\ calls' = (calls \ {c}) \cup {[c EXCEPT !.pc = "read"]}
    /\ UNCHANGED <<trackerVars, existed>>

\* entry, exists := dt.domains[d] (tracking.go:89)
ConcurrentRead(c) ==
    /\ ConcurrentFrame
    /\ c.pc = "read"
    /\ calls' = (calls \ {c}) \cup
                  {[c EXCEPT !.pc = "write",
                             !.exists = Normalize(c.host) \in DOMAIN domains]}
    /\ UNCHANGED <<trackerVars, dtMu, existed>>

\* what the call does with what it has read (tracking.go:90-131)
ShouldNotifyWrite(tbl, h, t, exists) ==
    IF exists THEN ShouldNotifyStep(tbl, h, t)
    ELSE [tbl |-> Put(tbl, Normalize(h), NewEntry(Normalize(h), t)),
          ret |-> TRUE, saved |-> FALSE, branch |-> "first"]

\* tracking.go:90-131 and the deferred Unlock
ConcurrentWrite(c) ==
    /\ ConcurrentFrame
    /\ c.pc = "write"
    /\ LET d == Normalize(c.host)
           r == ShouldNotifyWrite(domains, c.host, now, c.exists)
       IN  /\ domains' = r.tbl
           /\ existed' = existed \cup {r.tbl}
           /\ disk' = IF r.saved THEN r.tbl ELSE disk
           /\ last' = [Call("ShouldNotifyDomain", d) EXCEPT !.ret = r.ret,
                                                           !.branch = r.branch]
           /\ lastTrue' = IF r.ret THEN Put(lastTrue, d, <<now, r.branch>>)
                           ELSE lastTrue
           /\ autoBlack' = autoBlack \cup NewlyBlack(domains, r.tbl)
           /\ fresh' = IF r.branch = "first" THEN <<d, now>> ELSE <<>>
           /\ calls' = (calls \ {c}) \cup
                         {[c EXCEPT !.pc = "returned", !.ret = r.ret]}
    /\ dtMu' = ""
    /\ UNCHANGED <<now, nCalls, nAdvances, shortSwept>>

ConcurrentNext ==
    \/ \E h \in Hosts : ConcurrentCall(h)
    \/ \E c \in calls : ConcurrentLock(c)
    \/ \E c \in calls : ConcurrentRead(c)
    \/ \E c \in calls : ConcurrentWrite(c)

\* C28: when N ShouldNotifyDomain calls for one hostname that has no entry
\* run side by side, exactly one of them returns true, and once all have
\* returned the entry's hitCount is N.
C28_OneTrueOfN ==
    /\ Cardinality({c \in calls : c.pc = "returned" /\ c.ret}) <= 1
    /\ (calls # {} /\ \A c \in calls : c.pc = "returned") =>
          /\ Cardinality({c \in calls : c.ret}) = 1
          /\ DOMAIN domains = {<<"a">>}
          /\ domains[<<"a">>].hitCount = Cardinality(calls)

\* MaxCalls calls, in both spellings of the hostname, each made while the
\* earlier ones were still under way, have all returned
C28_Witness ==
    /\ Cardinality(calls) = MaxCalls
    /\ \A c \in calls : c.pc = "returned" /\ c.beside = 1..(c.id - 1)
    /\ {c.host : c \in calls} = Hosts

(***************************************************************************)
(* Properties of the way from certificate to notification                  *)
(***************************************************************************)
\* a call of send that has returned without any sink taking the batch
Undelivered(i) == \A s \in Sinks : log[i].outcome[s] # "delivered"

\* the hostname with key d that ShouldNotifyDomain said yes to at time t was
\* in a batch that no sink took
FailedBatchOf(d, t) ==
    \E i \in 1..Len(log) :
        /\ Undelivered(i)
        /\ \E k \in 1..Len(log[i].ids) :
              /\ Normalize(handed[log[i].ids[k]].host) = d
              /\ handed[log[i].ids[k]].at = t

\* a step that is not the tracker's part of processEntry
NotACheck == ~(nCalls' = nCalls + 1 /\ last'.op = "ShouldNotifyDomain")

\* C21: the outcome of a delivery does not reach the tracker's bookkeeping:
\* no step of the batcher, of send and its attempts, or of what send starts
\* changes lastNotified or hitCount of an entry, and after
\* ShouldNotifyDomain(H) returned true and no sink took H's batch, no call
\* for H returns true before 7 days have passed.
C21_NoRollback ==
    /\ [](( /\ IsCheck /\ last.ret
            /\ last.prevTrue # ZeroTime /\ last.prevTrue < last.t
            /\ FailedBatchOf(last.key, last.prevTrue) )
          => last.t - last.prevTrue >= Cooldown)
    /\ [][NotACheck =>
             \A d \in DOMAIN domains \cap DOMAIN domains' :
                 /\ domains'[d].lastNotified = domains[d].lastNotified
                 /\ domains'[d].hitCount = domains[d].hitCount]_vars

\* Discord answered 429 three times to the batch of H; almost 7 days later
\* H is seen again and ShouldNotifyDomain says no
C21_Witness ==
    /\ IsCheck /\ ~last.ret
    /\ last.t - last.prevTrue = Cooldown - 1
    /\ FailedBatchOf(last.key, last.prevTrue)
    /\ \E i \in 1..Len(log) : log[i].outcome["discord"] = "gave up"
    /\ domains[last.key].lastNotified = last.prevTrue
    /\ domains[last.key].hitCount = 2

\* C25: a hostname is handed to add only if, for that observation,
\* ShouldNotifyDomain returned true and ResolveDomain, called after it,
\* returned true: every add call there has been comes from such an
\* observation, and an observation the tracker suppresses or whose hostname
\* does not resolve starts no add call.
C25_OnlyNotifiedAndResolved ==
    /\ [](/\ passed = DOMAIN handed
          /\ \A i \in DOMAIN handed : handed[i].notify /\ handed[i].resolves)
    /\ [][~NotACheck =>
            /\ nAdds' # nAdds => (last'.ret /\ domains'[last'.key].resolved)
            /\ ~last'.ret => (nAdds' = nAdds /\ adds' = adds)
            /\ (last'.ret /\ ~domains'[last'.key].resolved)
                  => (nAdds' = nAdds /\ adds' = adds)]_vars

\* one observation has been handed to add; the latest one, with a sink
\* enabled, got true from ShouldNotifyDomain, did not resolve and was not
\* handed over
C25_Witness ==
    /\ notifyDiscord
    /\ Len(handed) = 1
    /\ nAdds = 1
    /\ adds = {}
    /\ IsCheck
    /\ last.ret
    /\ last.t > handed[1].at
    /\ ~domains[last.key].resolved

RECURSIVE SumOver(_, _)
\* the sum of the counts m holds for the days of ks
SumOver(m, ks) ==
    IF ks = {} THEN 0
    ELSE LET k == CHOOSE x \in ks : TRUE
         IN  m[k] + SumOver(m, ks \ {k})

\* the hits an entry has on record in dailyHits, all days together
TotalDailyHits(e) == SumOver(e.dailyHits, DOMAIN e.dailyHits)

\* C40: in every state the tracker and the blacklist handlers of the admin
\* panel reach, in whatever order their steps are taken, the counts in
\* dailyHits of an entry add up to its hitCount at most.
C40_DailyHitsWithinHitCount ==
    \A d \in DOMAIN domains : TotalDailyHits(domains[d]) <= domains[d].hitCount

\* a step that is processEntry for one hostname
EntryCall == nCalls' = nCalls + 1 /\ last'.op = "ShouldNotifyDomain"

\* C37: an observation for which ShouldNotifyDomain returns true and
\* ResolveDomain false hands nothing to the batcher and leaves lastNotified
\* at the time of the call; every observation of the hostname in the 7 days
\* that follow is suppressed and hands nothing over either.
C37_UnresolvedUsesCooldown ==
    [][EntryCall =>
         LET d == last'.key
         IN  /\ (last'.ret /\ last'.arg = <<FALSE>>) =>
                    /\ handed' = handed
                    /\ nAdds' = nAdds
                    /\ adds' = adds
                    /\ domains'[d].lastNotified = now
             /\ (/\ d \in DOMAIN lastTrue
                 /\ ~lastTrue[d][3]
                 /\ now - lastTrue[d][1] < Cooldown) =>
                    /\ ~last'.ret
                    /\ handed' = handed
                    /\ nAdds' = nAdds
                    /\ adds' = adds]_vars

\* a hostname that did not resolve when the tracker said yes is seen again
\* one tick before the 7 days are over and is suppressed; nothing has been
\* handed to the batcher
C37_Witness ==
    /\ last.op = "ShouldNotifyDomain"
    /\ ~last.ret
    /\ last.key \in DOMAIN lastTrue
    /\ ~lastTrue[last.key][3]
    /\ now - lastTrue[last.key][1] = Cooldown - 1
    /\ domains[last.key].lastNotified = lastTrue[last.key][1]
    /\ handed = <<>>
    /\ nAdds = 0
    /\ sent = <<>>

(***************************************************************************)
(* The administrative reset of a blacklisted entry (stats.go:714-741) and  *)
(* the hits that follow it.  The handler runs with no tracker operation    *)
(* beside it; the tracker starts with an entry that updateDailyHits has    *)
(* blacklisted.                                                            *)
(***************************************************************************)
RECURSIVE ForcedTimes(_, _, _, _)
\* the table after n calls ForceNotifyDomain(h) at time t
ForcedTimes(tbl, h, t, n) ==
    IF n = 0 \/ DOMAIN tbl = {}
    THEN tbl
    ELSE ForcedTimes(ForceNotifyStep(tbl, h, t), h, t, n - 1)

\* the blacklisted entry as the blacklisting hit left it, and after a day
\* without calls and a day with 11 calls of ForceNotifyDomain
ResetStarts ==
    { [tbl |-> BlackTable, at |-> (BlacklistDays - 1) * OneDay + 1],
      [tbl |-> ForcedTimes(BlackTable, <<"a">>, (BlacklistDays + 1) * OneDay,
                           HighHitThreshold + 1),
       at  |-> (BlacklistDays + 1) * OneDay] }

ResetInit ==
    /\ \E st \in ResetStarts :
          /\ domains = st.tbl
          /\ now = st.at
    /\ disk = domains
    /\ lastTrue = [d \in DOMAIN domains |-> <<domains[d].lastNotified, "first">>]
    /\ autoBlack = { d \in DOMAIN domains : domains[d].blacklisted }
    /\ nCalls = 0 /\ nAdvances = 0
    /\ last = NoCall /\ shortSwept = {} /\ fresh = <<>>
    /\ dtMu = ""
    /\ savers = [w \in Savers |-> SaverIdle]
    /\ admin = AdminAtRest
    /\ inodes = <<Written(jsonMarshal(domains))>>
    /\ finalPath = 1
    /\ tmpPath = 0
    /\ existed = {domains}

\* HighHitThreshold calls ShouldNotifyDomain(h) in a row, each of them a
\* suppressed hit of an entry inside its cooldown
ShouldNotifyBurst(h) ==
    /\ UNCHANGED <<batcherVars, senderVars, adminVars, callerVars, pipelineVars>>
    /\ admin.pc = "idle"
    /\ nCalls < MaxCalls
    /\ Normalize(h) \in DOMAIN domains
    /\ ~domains[Normalize(h)].blacklisted
    /\ ~CooldownElapsed(domains[Normalize(h)], now)
    /\ LET tbl == Sightings(domains, h, now, HighHitThreshold)
       IN  /\ domains' = tbl
           /\ disk' = tbl
           /\ autoBlack' = autoBlack \cup NewlyBlack(domains, tbl)
    /\ last' = [NoCall EXCEPT !.op = "ShouldNotifyBurst", !.key = Normalize(h),
                              !.t = now]
    /\ nCalls' = nCalls + 1
    /\ fresh' = <<>>
    /\ UNCHANGED <<now, nAdvances, lastTrue, shortSwept>>

ResetNext ==
    \/ \E h \in AdminHosts : admin.pc = "idle" /\ ShouldNotifyDomain(h)
    \/ \E h \in AdminHosts : admin.pc = "idle" /\ ForceNotifyDomain(h)
    \/ \E h \in AdminHosts : ShouldNotifyBurst(h)
    \/ \E name \in AdminHosts : removeBlacklist(name)
    \/ AdminStore
    \/ SaveMarshal("admin")
    \/ SaveOpen("admin")
    \/ SaveWrite("admin")
    \/ SaveRename("admin")
    \/ admin.pc = "idle" /\ Advance(OneDay)

\* C36: the administrative reset leaves highHitDays and lastHighHitDate of
\* the entry as they were, so an entry that updateDailyHits had blacklisted
\* is blacklisted again by the hit that takes dailyHits above
\* HighHitThreshold on the day after lastHighHitDate, and is not
\* blacklisted again by a hit on the day of lastHighHitDate.
C36_ResetKeepsStreak ==
    /\ [][last'.op = "AdminStore" /\ last.op = "removeBlacklist" =>
            LET d == last'.key
            IN  /\ ~domains'[d].blacklisted
                /\ domains'[d].highHitDays = domains[d].highHitDays
                /\ domains'[d].lastHighHitDate = domains[d].lastHighHitDate]_vars
    /\ [][HitCall /\ last'.key \in autoBlack /\ last'.key \in DOMAIN domains
            /\ ~domains[last'.key].blacklisted =>
            LET d == last'.key
                e == domains[d]
                today == DateOf(now)
            IN  /\ (today = e.lastHighHitDate + 1
                       /\ Get(e.dailyHits, today) = HighHitThreshold)
                     => domains'[d].blacklisted
                /\ today = e.lastHighHitDate => ~domains'[d].blacklisted]_vars

(***************************************************************************)
(* ResolveDomain (part_001:22-60).  The cache is a package-level map from  *)
(* the normalized hostname to the answer and the time it was stored.  The  *)
(* lookup runs with a 5 second timeout, far below a tick of this clock.    *)
(***************************************************************************)
\* ticks of the resolver's clock in time.Hour
TicksPerHour == 2

\* the resolver's clock stops here
MaxResolveClock == 2 * TicksPerHour + 1

\* ResolveDomain calls in a run
MaxResolves == 4

ResolveHosts == { <<"a">>, <<"A", ".">>, <<"b">> }

\* how resolver.LookupHost ends: with addresses, or with one of its errors
LookupOutcomes == { "addrs", "nxdomain", "timeout" }

ResolveAdvances == { 1, TicksPerHour - 1, TicksPerHour }

\* a cache that is good up to and including one hour
CacheValidAtMost(cache, d, t) ==
    d \in DOMAIN cache /\ t - cache[d].timestamp <= TicksPerHour

\* exists && time.Since(entry.timestamp) < time.Hour
CacheValid(cache, d, t) ==
    d \in DOMAIN cache /\ t - cache[d].timestamp < TicksPerHour

\* resolves := err == nil, with every error counted as a resolving name
ResolvesLenient(o) == o # "nxdomain"

\* resolves := err == nil
Resolves(o) == o = "addrs"

\* ResolveDomain(h); o is how the lookup ends if one is made
ResolveDomain(h, o) ==
    /\ UNCHANGED <<trackerVars, batcherVars, senderVars, adminVars, callerVars>>
    /\ UNCHANGED <<handed, dispatching, log, scanVars>>
    /\ nResolves < MaxResolves
    /\ nResolves' = nResolves + 1
    /\ LET d == Normalize(h)
       IN  IF CacheValid(resolveCache, d, rclock)
           THEN /\ lastResolve' = [host |-> h, key |-> d, outcome |-> "",
                                ret |-> resolveCache[d].resolves,
                                cached |-> TRUE]
                /\ UNCHANGED <<resolveCache, lookups>>
           ELSE /\ lookups' = lookups + 1
                /\ resolveCache' = Put(resolveCache, d,
                                       [resolves |-> Resolves(o),
                                        timestamp |-> rclock])
                /\ lastResolve' = [host |-> h, key |-> d, outcome |-> o,
                                ret |-> Resolves(o), cached |-> FALSE]
    /\ UNCHANGED rclock

\* time passes between two calls
ResolverAdvance(by) ==
    /\ UNCHANGED <<trackerVars, batcherVars, senderVars, adminVars, callerVars>>
    /\ UNCHANGED <<handed, dispatching, log, scanVars>>
    /\ rclock + by <= MaxResolveClock
    /\ rclock' = rclock + by
    /\ UNCHANGED <<resolveCache, lookups, lastResolve, nResolves>>

\* the empty cache of `resolveCache = make(map[string]cacheEntry)`
ResolverInit == PipelineIdle

ResolverNext ==
    \/ \E h \in ResolveHosts, o \in LookupOutcomes : ResolveDomain(h, o)
    \/ \E by \in ResolveAdvances : ResolverAdvance(by)

\* a step that is a call of ResolveDomain
ResolveCall == nResolves' = nResolves + 1

\* C35: ResolveDomain(H) returns the cached answer without a lookup exactly
\* when the cache has an entry for the normalized H that is younger than
\* one hour; otherwise it makes one lookup and stores its outcome with the
\* current time, storing false for every failure of the lookup.
C35_ResolveCache ==
    [][ResolveCall =>
         LET d == lastResolve'.key
             young == /\ d \in DOMAIN resolveCache
                      /\ rclock - resolveCache[d].timestamp < TicksPerHour
         IN  /\ d = Normalize(lastResolve'.host)
             /\ lastResolve'.cached <=> young
             /\ young => /\ lookups' = lookups
                          /\ resolveCache' = resolveCache
                          /\ lastResolve'.ret = resolveCache[d].resolves
             /\ ~young => /\ lookups' = lookups + 1
                           /\ DOMAIN resolveCache' = DOMAIN resolveCache \cup {d}
                           /\ resolveCache'[d].timestamp = rclock'
                           /\ resolveCache'[d].resolves
                                 = (lastResolve'.outcome = "addrs")
                           /\ lastResolve'.ret = resolveCache'[d].resolves
                           /\ \A x \in DOMAIN resolveCache \ {d} :
                                 resolveCache'[x] = resolveCache[x]]_vars

\* a timed-out lookup was stored as false; exactly one hour later the
\* other spelling of the name is looked up again, and resolves
C35_Witness ==
    /\ lastResolve.host = <<"A", ".">>
    /\ ~lastResolve.cached
    /\ lastResolve.ret
    /\ lookups = 2
    /\ nResolves = 3
    /\ rclock = TicksPerHour
    /\ DOMAIN resolveCache = { <<"a">> }

(***************************************************************************)
(* The scans of the enumeration (part_006:55-201) and the counters they    *)
(* keep in StatsTracker (stats.go:59-94).  RunFeroxbuster and RunPuredns   *)
(* count the scan as active, start it with `screen`, and on success leave  *)
(* a goroutine, asyncReadAndSendScanResults, that watches the output file  *)
(* and returns when the scan is over or has run into its timeout.          *)
(***************************************************************************)
\* RunFeroxbuster and RunPuredns calls in a run
MaxRuns == 3

ScanKinds == {"feroxbuster", "puredns"}

\* st.activeFeroxScans++ or st.activePurednsScans++
IncrementActive(st, kind) ==
    IF kind = "feroxbuster"
    THEN [st EXCEPT !.activeFeroxScans = @ + 1]
    ELSE [st EXCEPT !.activePurednsScans = @ + 1]

\* DecrementActiveFeroxScans(success) or DecrementActivePurednsScans(success)
DecrementActive(st, kind, success) ==
    LET s1 == IF kind = "feroxbuster"
              THEN [st EXCEPT !.activeFeroxScans = @ - 1]
              ELSE [st EXCEPT !.activePurednsScans = @ - 1]
    IN  IF success THEN [s1 EXCEPT !.completedScans = @ + 1]
                   ELSE [s1 EXCEPT !.failedScans = @ + 1]

ScanFrame ==
    /\ UNCHANGED <<trackerVars, batcherVars, senderVars, adminVars, callerVars>>
    /\ UNCHANGED <<handed, dispatching, log, resolverVars>>

\* RunFeroxbuster or RunPuredns up to the start of `screen`: a call that
\* finds the tool not configured returns at once; every other one counts
\* the scan as active
RunBegin(kind, configured) ==
    /\ ScanFrame
    /\ nRuns < MaxRuns
    /\ nRuns' = nRuns + 1
    /\ IF configured
         THEN /\ stats' = IncrementActive(stats, kind)
              /\ scans' = Append(scans, [kind |-> kind, st |-> "starting"])
         ELSE UNCHANGED <<stats, scans>>

\* RunFeroxbuster from the return of screenCmd.Run() to its own return: on
\* success the watcher is started; the deferred
\* st.DecrementActiveFeroxScans(true) runs on either path
RunFeroxbusterEnd(i, started) ==
    /\ ScanFrame
    /\ scans[i].kind = "feroxbuster"
    /\ scans[i].st = "starting"
    /\ scans' = [scans EXCEPT ![i].st = IF started THEN "running" ELSE "failed"]
    /\ stats' = DecrementActive(stats, "feroxbuster", TRUE)
    /\ UNCHANGED nRuns

\* RunPuredns from the return of screenCmd.Run() to its own return: on
\* failure st.DecrementActivePurednsScans(false), on success the watcher
RunPurednsEnd(i, started) ==
    /\ ScanFrame
    /\ scans[i].kind = "puredns"
    /\ scans[i].st = "starting"
    /\ scans' = [scans EXCEPT ![i].st = IF started THEN "running" ELSE "failed"]
    /\ stats' = IF started THEN stats
                ELSE DecrementActive(stats, "puredns", FALSE)
    /\ UNCHANGED nRuns

\* asyncReadAndSendScanResults returns: the output file stopped growing
\* (success) or the timeout was reached; its deferred function decrements
\* the counter of its scanType
WatcherEnd(i, success) ==
    /\ ScanFrame
    /\ scans[i].st = "running"
    /\ scans' = [scans EXCEPT ![i].st = "finished"]
    /\ stats' = DecrementActive(stats, scans[i].kind, success)
    /\ UNCHANGED nRuns

ScanInit == PipelineIdle

ScanNext ==
    \/ \E kind \in ScanKinds, c \in BOOLEAN : RunBegin(kind, c)
    \/ \E i \in 1..Len(scans), ok \in BOOLEAN : RunFeroxbusterEnd(i, ok)
    \/ \E i \in 1..Len(scans), ok \in BOOLEAN : RunPurednsEnd(i, ok)
    \/ \E i \in 1..Len(scans), ok \in BOOLEAN : WatcherEnd(i, ok)

\* the scans of a kind that have been started and are not over
Underway(kind) ==
    { i \in 1..Len(scans) : /\ scans[i].kind = kind
                            /\ scans[i].st \in {"starting", "running"} }

\* C39: activeFeroxScans and activePurednsScans are never negative and are
\* the numbers of scans of their kind started and not yet over; every scan
\* that is over, or failed to start, is counted once in completedScans or
\* failedScans, and no other is.
C39_ScanCounters ==
    /\ stats.activeFeroxScans >= 0
    /\ stats.activePurednsScans >= 0
    /\ stats.activeFeroxScans = Cardinality(Underway("feroxbuster"))
    /\ stats.activePurednsScans = Cardinality(Underway("puredns"))
    /\ stats.completedScans + stats.failedScans
         = Cardinality({ i \in 1..Len(scans) :
                           scans[i].st \in {"finished", "failed"} })

(***************************************************************************)
(* The specifications                                                      *)
(***************************************************************************)
\* the tracker of a run in which nothing is observed
TrackerIdle ==
    /\ domains = EmptyMap /\ disk = EmptyMap /\ now = 0
    /\ nCalls = 0 /\ nAdvances = 0
    /\ last = NoCall /\ lastTrue = EmptyMap
    /\ autoBlack = {} /\ shortSwept = {} /\ fresh = <<>>

\* the domain tracker
Init == TrackerInit /\ BatcherIdle /\ SenderIdle /\ AdminIdle /\ CallerIdle /\ PipelineIdle

Next == TrackerNext

Spec == Init /\ [][Next]_vars

\* the notification batcher
InitBatcher == BatcherInit /\ TrackerIdle /\ SenderIdle /\ AdminIdle /\ CallerIdle /\ PipelineIdle

NextBatcher == BatcherNext

SpecBatcher == InitBatcher /\ [][NextBatcher]_vars

\* the tracker at the thresholds of the scoring rule
InitRisk == RiskInit /\ BatcherIdle /\ SenderIdle /\ AdminIdle /\ CallerIdle /\ PipelineIdle

NextRisk == RiskNext

SpecRisk == InitRisk /\ [][NextRisk]_vars

\* one call of send
InitSend == SendInit /\ TrackerIdle /\ BatcherIdle /\ AdminIdle /\ CallerIdle /\ PipelineIdle

NextSend == SendNext

SpecSend == InitSend /\ [][NextSend]_vars

\* the tracker beside the admin panel
InitAdmin == AdminInit /\ BatcherIdle /\ SenderIdle /\ CallerIdle /\ PipelineIdle

NextAdmin == AdminNext

SpecAdmin == InitAdmin /\ [][NextAdmin]_vars

\* the tracker and a caller of its getters
InitCaller == CallerInit /\ BatcherIdle /\ SenderIdle /\ AdminIdle /\ PipelineIdle

NextCaller == CallerNext

SpecCaller == InitCaller /\ [][NextCaller]_vars

\* from certificate to notification
InitPipeline == PipelineInit /\ AdminIdle /\ CallerIdle

NextPipeline == PipelineNext

SpecPipeline == InitPipeline /\ [][NextPipeline]_vars

\* the batcher and the sends it starts
InitDispatch == DispatchInit /\ TrackerIdle /\ AdminIdle /\ CallerIdle

NextDispatch == DispatchNext

SpecDispatch == InitDispatch /\ [][NextDispatch]_vars

\* the tracker counting daily hits
InitDaily == DailyInit /\ BatcherIdle /\ SenderIdle /\ AdminIdle /\ CallerIdle /\ PipelineIdle

NextDaily == DailyNext

SpecDaily == InitDaily /\ [][NextDaily]_vars

\* ShouldNotifyDomain called side by side
InitConcurrent == ConcurrentInit /\ BatcherIdle /\ SenderIdle /\ PipelineIdle

NextConcurrent == ConcurrentNext

SpecConcurrent == InitConcurrent /\ [][NextConcurrent]_vars

\* the tracker's record, sweep and list operations
InitRecord == RecordInit /\ BatcherIdle /\ SenderIdle /\ AdminIdle /\ PipelineIdle

NextRecord == RecordNext

SpecRecord == InitRecord /\ [][NextRecord]_vars

InitResolver == ResolverInit /\ TrackerIdle /\ BatcherIdle /\ SenderIdle /\ AdminIdle /\ CallerIdle

NextResolver == ResolverNext

SpecResolver == InitResolver /\ [][NextResolver]_vars

InitReset == ResetInit /\ BatcherIdle /\ SenderIdle /\ CallerIdle /\ PipelineIdle

NextReset == ResetNext

SpecReset == InitReset /\ [][NextReset]_vars

InitScan == ScanInit /\ TrackerIdle /\ BatcherIdle /\ SenderIdle /\ AdminIdle /\ CallerIdle

NextScan == ScanNext

SpecScan == InitScan /\ [][NextScan]_vars

====
